---- MODULE Spec2Model ----
(***************************************************************************)
(* Model of the LMS integration driver (uc_intg_lmserver): the status      *)
(* mapping of the media-player entity, the command dispatch of both entity *)
(* classes, the per-entity polling loops under subscribe / unsubscribe /   *)
(* disconnect events, and the serialized entity initialization.            *)
(*                                                                         *)
(* Four specifications share the variables:                                *)
(*   SpecMap   one refresh cycle (update_attributes) over a payload domain *)
(*   SpecCmd   one command() call of either entity class                   *)
(*   SpecInit  concurrent callers of _initialize_entities                  *)
(*   Spec      polling loops, event handlers and deferred refreshes        *)
(***************************************************************************)
EXTENDS Integers, Sequences, FiniteSets, TLC

VARIABLES
    attributes,       \* entity -> attribute record (Entity.attributes)
    hub,              \* entity -> last snapshot pushed by _force_integration_update
    cycle,            \* SpecMap: the refresh cycle in flight
    call,             \* SpecCmd: the command() call and its outcome
    polling_active,   \* entity -> _polling_active
    polling_task,     \* entity -> _polling_task (0 is None)
    tasks,            \* sequence of the polling-loop tasks created so far
    handlers,         \* sequence of the hub event handlers in flight
    events,           \* number of subscribe / stop events emitted so far, and
                      \*   history: a disconnect handler has returned and no
                      \*   subscribe or unsubscribe event has arrived since
    deferred,         \* sequence of the _deferred_update tasks created so far
    quiet,            \* history: stop_polling returned, and no start_polling,
                      \*   subscribe refresh or command invoked since
    stopped,          \* history: loop tasks running at the call of a stop_polling
                      \*   that has returned
    entities_ready,   \* driver.entities_ready
    initialization_lock, \* caller holding driver.initialization_lock (0: free)
    callers,          \* caller -> position inside _initialize_entities
    registry,         \* media_players / remotes / api.available_entities
    device_state,     \* last device state handed to api.set_device_state
    config,           \* driver.config: server_host and players
    clients,          \* the LMSClient objects created by the driver so far
    client            \* driver.client: index into clients (0 is None)

vars == <<attributes, hub, cycle, call, polling_active, polling_task, tasks,
          handlers, events, deferred, quiet, stopped, entities_ready, initialization_lock,
          callers, registry, device_state, config, clients, client>>

mapVars  == <<cycle>>
cmdVars  == <<call>>
pollVars == <<polling_active, polling_task, tasks, handlers, events, deferred,
              quiet, stopped>>
initVars == <<entities_ready, initialization_lock, callers, registry,
              device_state, config, clients, client>>

(***************************************************************************)
(* JSON values of a status payload and of command parameters.  A value is  *)
(* an integer, a float (kept in tenths), a string, or absent (the key is   *)
(* missing, so dict.get returns its default).                              *)
(***************************************************************************)
JInt(k)   == [t |-> "int",   n |-> k, s |-> ""]
JFloat(k) == [t |-> "float", n |-> k, s |-> ""]
JStr(x)   == [t |-> "str",   n |-> 0, s |-> x]
JNone     == [t |-> "none",  n |-> 0, s |-> ""]

\* dict.get(key, default)
Get(v, default) == IF v = JNone THEN default ELSE v

\* The decimal strings the model feeds to int() and float().
NumStr == [x \in {"0", "1", "2", "3", "15", "42", "150"} |->
             CASE x = "0" -> 0 [] x = "1" -> 1 [] x = "2" -> 2 [] x = "3" -> 3
               [] x = "15" -> 15 [] x = "42" -> 42 [] x = "150" -> 150]

\* Python int(v): an int stays, a float truncates, a decimal string parses,
\* anything else raises ValueError / TypeError.
PyInt(v) ==
    CASE v.t = "int"   -> [ok |-> TRUE, n |-> v.n]
      [] v.t = "float" -> [ok |-> TRUE, n |-> v.n \div 10]
      [] v.t = "str"   -> IF v.s \in DOMAIN NumStr
                            THEN [ok |-> TRUE, n |-> NumStr[v.s]]
                            ELSE [ok |-> FALSE, n |-> 0]
      [] OTHER         -> [ok |-> FALSE, n |-> 0]

\* Python int(float(v)): as int(), a decimal string parses as a float first.
PyIntFloat(v) == PyInt(v)

\* Python truth value of a JSON value.
Truthy(v) ==
    CASE v.t = "int"   -> v.n # 0
      [] v.t = "float" -> v.n # 0
      [] v.t = "str"   -> v.s # ""
      [] OTHER         -> FALSE

(***************************************************************************)
(* Entity attributes (ucapi.media_player.Attributes / States).             *)
(***************************************************************************)
States == {"UNKNOWN", "UNAVAILABLE", "OFF", "ON", "PLAYING", "PAUSED"}

\* LMSMediaPlayer.__init__: the attribute values of a new entity.
InitialAttributes ==
    [state |-> "UNKNOWN", volume |-> 0, muted |-> FALSE,
     media_position |-> 0, media_duration |-> 0,
     media_title |-> "", media_artist |-> "", media_album |-> "",
     media_image_url |-> <<>>, repeat |-> "OFF", shuffle |-> FALSE]

\* LMSClient.__init__: _base_url
base_url == "http://lms:9000"

\* LMSClient.get_artwork_url with a cover id: a string, kept as its pieces.
get_artwork_url(coverid) == <<base_url, "/music/", coverid, "/cover.jpg">>

\* base64.b64encode(image_data).decode()
B64(image) == "b64(" \o image \o ")"

\* LMSClient.fetch_artwork_as_base64: the data URL built from an HTTP 200
\* answer holding `image`; "" (no pieces) on any other status or on an error.
fetch_artwork_as_base64(coverid, http) ==
    IF http.status = 200
      THEN <<"data:", http.content_type, ";base64,", B64(http.image)>>
      ELSE <<>>

\* The HTTP answers of the artwork URL of a cover id.
ArtworkAnswers(coverid) ==
    { [status |-> 200, content_type |-> "image/jpeg", image |-> "jpg" \o coverid],
      [status |-> 404, content_type |-> "", image |-> ""] }

(***************************************************************************)
(* update_attributes, first part: from the fetched status up to the        *)
(* artwork decision.  Each stage writes its attributes in place; a stage   *)
(* that raises leaves the earlier writes and ends the mapping.             *)
(***************************************************************************)
Ok(a)  == [ok |-> TRUE,  a |-> a]
Err(a) == [ok |-> FALSE, a |-> a]
Bind(r, F(_)) == IF r.ok THEN F(r.a) ELSE r

\* lines 264-274
MapState(status) ==
    LET power == Get(status.power, JInt(0))
        mode  == Get(status.mode, JStr("stop"))
    IN  IF power = JInt(0) THEN "OFF"
        ELSE CASE mode = JStr("play")  -> "PLAYING"
               [] mode = JStr("pause") -> "PAUSED"
               [] OTHER                -> "ON"

StageState(status, a) == Ok([a EXCEPT !.state = MapState(status)])

\* lines 276-278
StageVolume(status, a) ==
    IF status.volume = JNone THEN Ok(a)
    ELSE LET p == PyInt(status.volume)
         IN  IF p.ok THEN Ok([a EXCEPT !.volume = p.n]) ELSE Err(a)

\* lines 280-281
StageMuted(status, a) ==
    Ok([a EXCEPT !.muted = Truthy(Get(status.muting, JInt(0)))])

\* lines 283-289
StageRepeat(status, a) ==
    LET p == PyInt(Get(status.repeat, JInt(0)))
    IN  IF ~p.ok THEN Err(a)
        ELSE Ok([a EXCEPT !.repeat = CASE p.n = 0 -> "OFF" [] p.n = 1 -> "ONE"
                                       [] p.n = 2 -> "ALL" [] OTHER -> "OFF"])

\* lines 291-292
StageShuffle(status, a) ==
    LET p == PyInt(Get(status.shuffle, JInt(0)))
    IN  IF ~p.ok THEN Err(a) ELSE Ok([a EXCEPT !.shuffle = p.n > 0])

\* lines 294-316: the track fields come from playlist_loop[0]
StageTrackMutantKeepsFields(status, a) == Ok(a)

StageTrack(status, a) ==
    IF Len(status.playlist_loop) > 0
      THEN LET track == status.playlist_loop[1]
           IN  Ok([a EXCEPT !.media_title  = track.title,
                            !.media_artist = track.artist,
                            !.media_album  = track.album])
      ELSE Ok([a EXCEPT !.media_title = "", !.media_artist = "",
                        !.media_album = ""])

\* lines 295, 309: the local variable coverid ("" stands for None / empty)
CoverId(status) ==
    IF Len(status.playlist_loop) > 0 THEN status.playlist_loop[1].coverid ELSE ""

\* lines 318-322
StagePosition(status, a) ==
    IF status.time = JNone THEN Ok([a EXCEPT !.media_position = 0])
    ELSE LET p == PyIntFloat(status.time)
         IN  IF p.ok THEN Ok([a EXCEPT !.media_position = p.n]) ELSE Err(a)

\* lines 324-328
StageDuration(status, a) ==
    IF status.duration = JNone THEN Ok([a EXCEPT !.media_duration = 0])
    ELSE LET p == PyIntFloat(status.duration)
         IN  IF p.ok THEN Ok([a EXCEPT !.media_duration = p.n]) ELSE Err(a)

\* lines 264-328 in order
MapStatus(status, a) ==
    LET S1(x) == StageVolume(status, x)
        S2(x) == StageMuted(status, x)
        S3(x) == StageRepeat(status, x)
        S4(x) == StageShuffle(status, x)
        S5(x) == StageTrack(status, x)
        S6(x) == StagePosition(status, x)
        S7(x) == StageDuration(status, x)
    IN  Bind(Bind(Bind(Bind(Bind(Bind(Bind(StageState(status, a),
            S1), S2), S3), S4), S5), S6), S7)

\* lines 346-348: the except branch of update_attributes
MarkUnavailableMutantKeepsState(a) == a

MarkUnavailable(a) == [a EXCEPT !.state = "UNAVAILABLE"]

\* lines 332-336: what the refresh stores in MEDIA_IMAGE_URL once the artwork
\* request of `coverid` has answered `http`.
StoreArtwork(a, coverid, http) ==
    [a EXCEPT !.media_image_url = fetch_artwork_as_base64(coverid, http)]

\* line 336: no cover id
ClearArtwork(a) == [a EXCEPT !.media_image_url = <<>>]

(***************************************************************************)
(* update_attributes as the steps between its awaits.  The status request  *)
(* answers with a payload or raises; with a cover id the artwork request   *)
(* is awaited before the image attribute is written and the snapshot is    *)
(* pushed.  Each result: the attributes written, whether the snapshot is   *)
(* pushed in this step, and the cover id the refresh goes on to fetch.     *)
(***************************************************************************)
\* A refresh that maps every field of the payload but leaves the state of an
\* Unavailable entity as it is.
AfterFetchMutantStaysUnavailable(a, status) ==
    LET m == MapStatus(status, a)
        r == [m EXCEPT !.a.state = IF a.state = "UNAVAILABLE"
                                     THEN "UNAVAILABLE" ELSE @]
    IN  IF ~r.ok
          THEN [a |-> MarkUnavailable(r.a), publish |-> TRUE, coverid |-> ""]
          ELSE IF CoverId(status) # ""
            THEN [a |-> r.a, publish |-> FALSE, coverid |-> CoverId(status)]
            ELSE [a |-> ClearArtwork(r.a), publish |-> TRUE, coverid |-> ""]

\* lines 262-336, 344: get_player_status returned `status`
AfterFetch(a, status) ==
    LET r == MapStatus(status, a)
    IN  IF ~r.ok
          THEN [a |-> MarkUnavailable(r.a), publish |-> TRUE, coverid |-> ""]
          ELSE IF CoverId(status) # ""
            THEN [a |-> r.a, publish |-> FALSE, coverid |-> CoverId(status)]
            ELSE [a |-> ClearArtwork(r.a), publish |-> TRUE, coverid |-> ""]

\* lines 346-349: get_player_status raised
AfterFetchError(a) ==
    [a |-> MarkUnavailable(a), publish |-> TRUE, coverid |-> ""]

\* lines 333-344: fetch_artwork_as_base64 returned
AfterArtwork(a, coverid, http) ==
    [a |-> StoreArtwork(a, coverid, http), publish |-> TRUE, coverid |-> ""]

\* LMSRemote.update_sync_status, lines 507-521
RemoteAfterFetch(a, status) ==
    [a |-> [a EXCEPT !.state = IF Get(status.power, JInt(0)) = JInt(1)
                                 THEN "ON" ELSE "OFF"],
     publish |-> TRUE, coverid |-> ""]

\* LMSRemote.update_sync_status, lines 523-526
RemoteAfterFetchError(a) ==
    [a |-> [a EXCEPT !.state = "UNAVAILABLE"], publish |-> TRUE, coverid |-> ""]

\* The two entities of one configured player.
Entities == {"mp", "rm"}

\* update_attributes / update_sync_status of entity e, by entity class
Fetched(e, a, status) ==
    IF e = "mp" THEN AfterFetch(a, status) ELSE RemoteAfterFetch(a, status)
FetchError(e, a) ==
    IF e = "mp" THEN AfterFetchError(a) ELSE RemoteAfterFetchError(a)

\* LMSRemote.__init__: the attribute values of a new remote entity.
RemoteInitialAttributes == [state |-> "UNKNOWN"]

NewAttributes == [e \in Entities |->
                    IF e = "mp" THEN InitialAttributes ELSE RemoteInitialAttributes]

\* _force_integration_update: the hub's copy after a push of entity e.
Push(h, e, a) == [h EXCEPT ![e] = a]

(***************************************************************************)
(* Command dispatch.  A Gateway call is the command list handed to         *)
(* LMSClient.send_command; `fail` names the call of the command that       *)
(* raises (0: none) and `kind` the exception: "transport" is an            *)
(* aiohttp.ClientError, "protocol" a json decoding error (a ValueError).   *)
(***************************************************************************)
GwCall(op, arg, n) == [op |-> op, arg |-> arg, n |-> n]

\* The outcome of command(): the status code, the Gateway calls issued (a
\* call that raised was issued) and whether _deferred_update was scheduled.
Outcome(result, issued, scheduled) ==
    [result |-> result, issued |-> issued, deferred |-> scheduled]

\* LMSClient.set_volume, line 222: max(0, min(100, volume))
Clamp(v) == IF v < 0 THEN 0 ELSE IF v > 100 THEN 100 ELSE v

\* `params and key in params`
HasParam(params, key) == params[key] # JNone

\* _handle_repeat_command, lines 187-193: mode_map.get(repeat_mode, "0")
RepeatLmsMode(v) ==
    CASE v = JStr("OFF") -> "0" [] v = JStr("ONE") -> "1"
      [] v = JStr("ALL") -> "2" [] OTHER -> "0"

\* LMSMediaPlayer.command, lines 124-173: what each branch does before any
\* call is awaited: the calls it goes on to issue, or the early return.
MediaPlayerPlan(cmd_id, params) ==
    LET Calls(c) == [kind |-> "calls", calls |-> c]
        Bad      == [kind |-> "BAD_REQUEST", calls |-> <<>>]
        Raise    == [kind |-> "raise", calls |-> <<>>]
    IN  CASE cmd_id = "on" -> Calls(<<GwCall("power", "1", 0), GwCall("play", "", 0)>>)
          [] cmd_id = "off" -> Calls(<<GwCall("power", "0", 0)>>)
          [] cmd_id = "toggle" -> Calls(<<GwCall("power", "", 0)>>)
          [] cmd_id = "play_pause" -> Calls(<<GwCall("pause", "", 0)>>)
          [] cmd_id = "stop" -> Calls(<<GwCall("stop", "", 0)>>)
          [] cmd_id = "previous" -> Calls(<<GwCall("playlist index", "-1", 0)>>)
          [] cmd_id = "next" -> Calls(<<GwCall("playlist index", "+1", 0)>>)
          [] cmd_id = "volume" ->
               IF HasParam(params, "volume")
                 THEN LET p == PyInt(params.volume)
                      IN  IF p.ok
                            THEN Calls(<<GwCall("mixer volume", "", Clamp(p.n))>>)
                            ELSE Raise
                 ELSE Bad
          [] cmd_id = "volume_up" -> Calls(<<GwCall("mixer volume", "+5", 0)>>)
          [] cmd_id = "volume_down" -> Calls(<<GwCall("mixer volume", "-5", 0)>>)
          [] cmd_id = "mute_toggle" -> Calls(<<GwCall("mixer muting", "toggle", 0)>>)
          [] cmd_id = "mute" -> Calls(<<GwCall("mixer muting", "1", 0)>>)
          [] cmd_id = "unmute" -> Calls(<<GwCall("mixer muting", "0", 0)>>)
          [] cmd_id = "seek" ->
               IF HasParam(params, "media_position")
                 THEN LET p == PyInt(params.media_position)
                      IN  IF p.ok THEN Calls(<<GwCall("time", "", p.n)>>) ELSE Raise
                 ELSE Bad
          [] cmd_id = "repeat" ->
               IF HasParam(params, "repeat")
                 THEN Calls(<<GwCall("playlist repeat", RepeatLmsMode(params.repeat), 0)>>)
                 ELSE Bad
          [] cmd_id = "shuffle" ->
               IF HasParam(params, "shuffle")
                 THEN Calls(<<GwCall("playlist shuffle",
                                     IF Truthy(params.shuffle) THEN "1" ELSE "0", 0)>>)
                 ELSE Bad
          [] OTHER -> [kind |-> "NOT_IMPLEMENTED", calls |-> <<>>]

\* lines 175-177: the commands that skip the deferred update
VolumeCommands == {"volume", "volume_up", "volume_down"}

\* A command() whose `else` branch falls through to the deferred update and OK.
MediaPlayerCommandMutantUnknownIsOk(cmd_id, params, fail) ==
    LET plan == MediaPlayerPlan(cmd_id, params)
    IN  CASE plan.kind = "raise" -> Outcome("SERVER_ERROR", <<>>, FALSE)
          [] plan.kind = "calls" ->
               IF fail \in 1..Len(plan.calls)
                 THEN Outcome("SERVER_ERROR", SubSeq(plan.calls, 1, fail), FALSE)
                 ELSE Outcome("OK", plan.calls, cmd_id \notin VolumeCommands)
          [] plan.kind = "NOT_IMPLEMENTED" -> Outcome("OK", <<>>, TRUE)
          [] OTHER -> Outcome(plan.kind, <<>>, FALSE)

\* LMSMediaPlayer.command, lines 123-183
MediaPlayerCommand(cmd_id, params, fail) ==
    LET plan == MediaPlayerPlan(cmd_id, params)
    IN  CASE plan.kind = "raise" -> Outcome("SERVER_ERROR", <<>>, FALSE)
          [] plan.kind = "calls" ->
               IF fail \in 1..Len(plan.calls)
                 THEN Outcome("SERVER_ERROR", SubSeq(plan.calls, 1, fail), FALSE)
                 ELSE Outcome("OK", plan.calls, cmd_id \notin VolumeCommands)
          [] OTHER -> Outcome(plan.kind, <<>>, FALSE)

\* str.lower() on the words the model uses
Lower(w) == CASE w = "Kitchen" -> "kitchen" [] w = "Living" -> "living"
              [] w = "Room" -> "room" [] w = "Den" -> "den" [] OTHER -> w

\* LMSRemote._sanitize_player_name, lines 121-126.  A name is kept as its
\* words and separators; the result is the lower-case words, which the code
\* joins with "_".
Separators == {" ", "-", "_", ""}
_sanitize_player_name(name) ==
    LET F[i \in 0..Len(name)] ==
          IF i = 0 THEN <<>>
          ELSE IF name[i] \in Separators THEN F[i - 1]
               ELSE Append(F[i - 1], Lower(name[i]))
    IN  F[Len(name)]

\* LMSRemote._get_player_id_by_name, lines 128-133 ("" stands for None)
_get_player_id_by_nameMutantReturnsName(all_players, name) ==
    LET hits == {i \in 1..Len(all_players) :
                   _sanitize_player_name(all_players[i].name) = name}
    IN  IF hits = {} THEN "" ELSE "name"

_get_player_id_by_name(all_players, name) ==
    LET hits == {i \in 1..Len(all_players) :
                   _sanitize_player_name(all_players[i].name) = name}
    IN  IF hits = {} THEN ""
        ELSE all_players[CHOOSE i \in hits : \A j \in hits : i <= j].player_id

\* line 418: the list position of favorite_N, int(command.split("_")[1]) - 1
FavoriteIndexMutantZeroBased(n) == n

FavoriteIndex(n) == n - 1

\* A Gateway call of _handle_send_command: issued, and if it is the failing
\* one the exception leaves the handler.
SendOne(c, fail, kind, in_try) ==
    IF fail = 1
      THEN IF in_try /\ kind = "protocol"
             THEN Outcome("BAD_REQUEST", <<c>>, FALSE)
             ELSE Outcome("SERVER_ERROR", <<c>>, FALSE)
      ELSE Outcome("OK", <<c>>, FALSE)

\* LMSRemote._handle_send_command, lines 380-468, with command() 's except
\* branch (lines 376-378) applied to what it raises.  `command` is the
\* command string split at its underscores.
_handle_send_command(self, command, fail, kind) ==
    LET One(c) == SendOne(c, fail, kind, FALSE)
        arg    == IF Len(command) >= 2 THEN command[2] ELSE ""
    IN  CASE command = <<"play">> -> One(GwCall("play", "", 0))
          [] command = <<"pause">> -> One(GwCall("pause", "1", 0))
          [] command = <<"stop">> -> One(GwCall("stop", "", 0))
          [] command = <<"play", "pause">> -> One(GwCall("pause", "", 0))
          [] command = <<"next">> -> One(GwCall("playlist index", "+1", 0))
          [] command = <<"previous">> -> One(GwCall("playlist index", "-1", 0))
          [] command = <<"volume", "up">> -> One(GwCall("mixer volume", "+5", 0))
          [] command = <<"volume", "down">> -> One(GwCall("mixer volume", "-5", 0))
          [] command = <<"mute", "toggle">> -> One(GwCall("mixer muting", "toggle", 0))
          [] command = <<"UNSYNC">> -> One(GwCall("sync", "-", 0))
          [] Len(command) >= 2 /\ command[1] = "SYNC" ->
               LET target_id == _get_player_id_by_name(self.all_players, Tail(command))
               IN  IF target_id # ""
                     THEN One(GwCall("sync", target_id, 0))
                     ELSE Outcome("NOT_FOUND", <<>>, FALSE)
          [] Len(command) >= 2 /\ command[1] = "favorite" ->
               LET p == PyInt(JStr(arg))
                   fav_num == FavoriteIndex(p.n)
               IN  IF ~p.ok THEN Outcome("BAD_REQUEST", <<>>, FALSE)
                   ELSE IF 0 <= fav_num /\ fav_num < Len(self.favorites)
                     THEN IF self.favorites[fav_num + 1].id # ""
                            THEN SendOne(GwCall("favorites playlist play",
                                                self.favorites[fav_num + 1].id, 0),
                                         fail, kind, TRUE)
                            ELSE Outcome("NOT_FOUND", <<>>, FALSE)
                     ELSE Outcome("NOT_FOUND", <<>>, FALSE)
          [] command = <<"sleep", "cancel">> -> One(GwCall("sleep", "", 0))
          [] Len(command) >= 2 /\ command[1] = "sleep" ->
               LET p == PyInt(JStr(arg))
               IN  IF ~p.ok THEN Outcome("BAD_REQUEST", <<>>, FALSE)
                   ELSE SendOne(GwCall("sleep", "", p.n * 60), fail, kind, TRUE)
          [] command = <<"playlist", "clear">> -> One(GwCall("playlist clear", "", 0))
          [] command = <<"playlist", "add", "10", "songs">> ->
               One(GwCall("randomplay tracks", "", 10))
          [] command = <<"playlist", "add", "5", "albums">> ->
               One(GwCall("randomplay albums", "", 5))
          [] command = <<"power", "on">> -> One(GwCall("power", "1", 0))
          [] command = <<"power", "off">> -> One(GwCall("power", "0", 0))
          [] command = <<"power", "toggle">> -> One(GwCall("power", "", 0))
          [] OTHER -> Outcome("NOT_IMPLEMENTED", <<>>, FALSE)

\* LMSRemote.command, lines 355-378.  params.command is the send_cmd command
\* (<<>>: the key is missing).
RemoteCommand(self, cmd_id, params, fail, kind) ==
    CASE cmd_id = "on" -> SendOne(GwCall("power", "1", 0), fail, kind, FALSE)
      [] cmd_id = "off" -> SendOne(GwCall("power", "0", 0), fail, kind, FALSE)
      [] cmd_id = "toggle" -> SendOne(GwCall("power", "", 0), fail, kind, FALSE)
      [] cmd_id = "send_cmd" ->
           IF params.command # <<>>
             THEN _handle_send_command(self, params.command, fail, kind)
             ELSE Outcome("BAD_REQUEST", <<>>, FALSE)
      [] OTHER -> Outcome("NOT_IMPLEMENTED", <<>>, FALSE)

\* The parameters of a command: a key that is missing is JNone (<<>> for
\* the send_cmd command).
NoParams == [volume |-> JNone, media_position |-> JNone, repeat |-> JNone,
             shuffle |-> JNone, command |-> <<>>]

\* No command() call in progress.
NoOutcome == Outcome("", <<>>, FALSE)

IdleCall == [pc |-> "idle", entity |-> "", cmd_id |-> "", params |-> NoParams,
             fail |-> 0, kind |-> "", favorites |-> <<>>, out |-> NoOutcome]

(***************************************************************************)
(* Configuration and the entity collections.                               *)
(***************************************************************************)
\* LMSConfig: the persisted configuration once setup has completed, and the
\* empty configuration of a driver that was never set up.
CompleteConfig == [server_host |-> "lms",
                   players |-> <<[player_id |-> "aa", name |-> <<"Kitchen">>,
                                  enabled |-> TRUE],
                                 [player_id |-> "bb", name |-> <<"Living", " ", "Room">>,
                                  enabled |-> TRUE],
                                 [player_id |-> "cc", name |-> <<"Den">>,
                                  enabled |-> FALSE]>>]
EmptyConfig == [server_host |-> "", players |-> <<>>]

\* config.json with only one of the two parts
HostOnlyConfig == [server_host |-> "lms", players |-> <<>>]
PlayersOnlyConfig == [server_host |-> "", players |-> CompleteConfig.players]

\* LMSConfig.is_configured, line 80
is_configuredMutantHostOnly(cfg) == cfg.server_host # ""

is_configured(cfg) == cfg.server_host # "" /\ Len(cfg.players) > 0

\* driver.media_players, driver.remotes and api.available_entities
EmptyRegistry == [media_players |-> {}, remotes |-> {}, available |-> {}]

\* LMSClient.get_favorites: the loop_loop of the server, and one whose item
\* carries "name": null
LoadedFavorites ==
    <<[id |-> "1.0", name |-> JStr("Radio")], [id |-> "", name |-> JStr("Empty")]>>
NamelessFavorites == <<[id |-> "3.0", name |-> JNone]>>

\* LMSRemote.__init__ returns: _create_favorites_page (lms_remote.py, lines
\* 306-311) takes len(name) of each favorite, a TypeError unless the name is
\* a string.
RemoteBuilds(favorites) ==
    \A i \in 1..Len(favorites) : favorites[i].name.t = "str"

\* _initialize_entities, lines 121-162: the entities of every enabled player.
\* The media player is registered before the remote is constructed; a remote
\* whose constructor raises is skipped (lines 160-162).
BuiltRegistry(cfg, favorites) ==
    LET enabled == {cfg.players[i].player_id :
                      i \in {j \in 1..Len(cfg.players) : cfg.players[j].enabled}}
        remotes == IF RemoteBuilds(favorites) THEN enabled ELSE {}
    IN  [media_players |-> enabled, remotes |-> remotes,
         available |-> {<<"media_player", p>> : p \in enabled}
                         \cup {<<"remote", p>> : p \in remotes}]

(***************************************************************************)
(* SpecMap: one refresh cycle of an entity over a payload domain.          *)
(***************************************************************************)
TrackA       == [title |-> "A", artist |-> "B", album |-> "C", coverid |-> "99"]
TrackNoCover == [title |-> "T", artist |-> "", album |-> "", coverid |-> ""]

MapPayloads ==
    [power : {JInt(0), JInt(1), JNone},
     mode : {JStr("play"), JStr("pause"), JStr("stop"), JStr("other"), JNone},
     volume : {JNone, JInt(42), JStr("abc")},
     muting : {JNone, JInt(1)},
     repeat : {JNone, JInt(2)},
     shuffle : {JNone, JInt(1)},
     playlist_loop : {<<>>, <<TrackA>>, <<TrackNoCover>>, <<TrackNoCover, TrackA>>},
     time : {JNone, JFloat(127), JStr("x")},
     duration : {JNone, JInt(300)}]

\* Attribute values left by earlier refreshes.
StaleAttributes ==
    [state |-> "PLAYING", volume |-> 10, muted |-> TRUE,
     media_position |-> 5, media_duration |-> 9,
     media_title |-> "Old", media_artist |-> "Old", media_album |-> "Old",
     media_image_url |-> <<"data:", "image/png", ";base64,", B64("old")>>,
     repeat |-> "ALL", shuffle |-> TRUE]

PriorAttributes ==
    {InitialAttributes, StaleAttributes, [StaleAttributes EXCEPT !.state = "OFF"]}

NoStatus == [power |-> JNone, mode |-> JNone, volume |-> JNone, muting |-> JNone,
             repeat |-> JNone, shuffle |-> JNone, playlist_loop |-> <<>>,
             time |-> JNone, duration |-> JNone]

IdleCycle == [pc |-> "idle", ent |-> "mp", status |-> NoStatus, fetched |-> FALSE,
              coverid |-> "", npub |-> 0, artwork_requests |-> 0]

\* The parts of the state a specification does not use.
PollIdle ==
    /\ polling_active = [e \in Entities |-> FALSE]
    /\ polling_task = [e \in Entities |-> 0]
    /\ tasks = <<>>
    /\ handlers = <<>>
    /\ events = [subscribe |-> 0, stop |-> 0, disconnected |-> FALSE]
    /\ deferred = <<>>
    /\ quiet = [e \in Entities |-> FALSE]
    /\ stopped = {}

InitIdle ==
    /\ entities_ready = TRUE
    /\ initialization_lock = 0
    /\ callers = <<>>
    /\ registry = BuiltRegistry(CompleteConfig, LoadedFavorites)
    /\ device_state = "CONNECTED"
    /\ config = CompleteConfig
    /\ clients = <<[host |-> CompleteConfig.server_host, session |-> "open"]>>
    /\ client = 1

\* Attribute values of the remote left by earlier refreshes, and the payloads
\* its refresh reads (update_sync_status reads power only).
RemotePriorAttributes ==
    {[state |-> x] : x \in {"UNKNOWN", "ON", "OFF", "UNAVAILABLE"}}
RemotePayloads == {[NoStatus EXCEPT !.power = v] : v \in {JInt(0), JInt(1), JNone}}

MapInit ==
    /\ \/ \E prior \in PriorAttributes :
             /\ attributes = [NewAttributes EXCEPT !["mp"] = prior]
             /\ cycle = IdleCycle
       \/ \E prior \in RemotePriorAttributes :
             /\ attributes = [NewAttributes EXCEPT !["rm"] = prior]
             /\ cycle = [IdleCycle EXCEPT !.ent = "rm"]
    /\ hub = NewAttributes
    /\ call = IdleCall
    /\ PollIdle /\ InitIdle

\* update_attributes, line 262 (update_sync_status, lms_remote.py line 507):
\* the status request is issued
MapBegin ==
    /\ cycle.pc = "idle"
    /\ cycle' = [cycle EXCEPT !.pc = "fetch"]
    /\ UNCHANGED <<attributes, hub, cmdVars, pollVars, initVars>>

\* The step that ends a part of the refresh with result r.
MapStep(r, status, fetched) ==
    /\ attributes' = [attributes EXCEPT ![cycle.ent] = r.a]
    /\ hub' = IF r.publish THEN Push(hub, cycle.ent, r.a) ELSE hub
    /\ cycle' = [cycle EXCEPT
                    !.pc = IF r.coverid # "" THEN "artwork" ELSE "done",
                    !.status = status,
                    !.fetched = fetched,
                    !.coverid = r.coverid,
                    !.npub = @ + (IF r.publish THEN 1 ELSE 0),
                    !.artwork_requests = @ + (IF r.coverid # "" THEN 1 ELSE 0)]
    /\ UNCHANGED <<cmdVars, pollVars, initVars>>

\* get_player_status returns a payload
MapFetched ==
    /\ cycle.pc = "fetch"
    /\ \E status \in IF cycle.ent = "mp" THEN MapPayloads ELSE RemotePayloads :
          MapStep(Fetched(cycle.ent, attributes[cycle.ent], status), status, TRUE)

\* get_player_status raises
MapFetchFailed ==
    /\ cycle.pc = "fetch"
    /\ MapStep(FetchError(cycle.ent, attributes[cycle.ent]), cycle.status, FALSE)

\* fetch_artwork_as_base64 returns
MapArtwork ==
    /\ cycle.pc = "artwork"
    /\ \E http \in ArtworkAnswers(cycle.coverid) :
          MapStep(AfterArtwork(attributes["mp"], cycle.coverid, http),
                  cycle.status, TRUE)

MapNext == MapBegin \/ MapFetched \/ MapFetchFailed \/ MapArtwork

SpecMap == MapInit /\ [][MapNext]_vars

(***************************************************************************)
(* SpecCmd: one command() call of the media player or of the remote.       *)
(***************************************************************************)
\* ucapi.media_player.Commands handled by the entity, and two it does not handle.
MediaPlayerCmdIds ==
    {"on", "off", "toggle", "play_pause", "stop", "previous", "next", "volume",
     "volume_up", "volume_down", "mute_toggle", "mute", "unmute", "seek",
     "repeat", "shuffle", "fast_forward", "bogus"}

MediaPlayerParams ==
    {NoParams}
    \cup {[NoParams EXCEPT !.volume = v] :
            v \in {JInt(42), JInt(150), JStr("15"), JStr("abc")}}
    \cup {[NoParams EXCEPT !.media_position = v] : v \in {JInt(15), JStr("abc")}}
    \cup {[NoParams EXCEPT !.repeat = v] :
            v \in {JStr("OFF"), JStr("ONE"), JStr("ALL"), JStr("FOO")}}
    \cup {[NoParams EXCEPT !.shuffle = v] : v \in {JInt(1), JInt(0)}}

RemoteCmdIds == {"on", "off", "toggle", "send_cmd", "bogus"}

\* send_cmd command strings, split at their underscores
SendCommands ==
    {<<"play">>, <<"pause">>, <<"stop">>, <<"play", "pause">>, <<"next">>,
     <<"previous">>, <<"volume", "up">>, <<"volume", "down">>,
     <<"mute", "toggle">>, <<"UNSYNC">>, <<"SYNC", "living", "room">>,
     <<"SYNC", "kitchen">>, <<"SYNC", "den">>, <<"SYNC", "">>,
     <<"favorite", "0">>, <<"favorite", "1">>, <<"favorite", "2">>,
     <<"favorite", "3">>, <<"favorite", "x">>, <<"favorite", "">>,
     <<"sleep", "cancel">>, <<"sleep", "15">>, <<"sleep", "x">>, <<"sleep", "">>,
     <<"playlist", "clear">>, <<"playlist", "add", "10", "songs">>,
     <<"playlist", "add", "5", "albums">>, <<"power", "on">>, <<"power", "off">>,
     <<"power", "toggle">>, <<"bogus">>, <<"">>}

RemoteParams == {NoParams} \cup {[NoParams EXCEPT !.command = c] : c \in SendCommands}

\* The favorite lists a remote may have been built with (lms_remote.py, line
\* 40; driver.py, lines 106-111: [] when get_favorites failed).
FavoriteLists ==
    {<<>>,
     LoadedFavorites,
     <<[id |-> "1.0", name |-> JStr("Radio")], [id |-> "2.1", name |-> JStr("Jazz")]>>,
     <<[id |-> "2.1", name |-> JStr("Jazz")], [id |-> "1.0", name |-> JStr("Radio")],
       [id |-> "", name |-> JStr("Empty")]>>}

\* driver._initialize_entities, lines 145-151: the remote of player "aa" among
\* the configured players, with the favorites loaded at initialization.
RemoteSelf == [player_id |-> "aa", all_players |-> CompleteConfig.players,
               favorites |-> LoadedFavorites]

FailKinds == {"transport", "protocol"}

CmdInit ==
    /\ call = IdleCall
    /\ attributes = NewAttributes
    /\ hub = NewAttributes
    /\ cycle = IdleCycle
    /\ PollIdle /\ InitIdle

\* A command() that stores the level of a successful volume command in
\* the volume attribute.
CommandWritesMutantStoresVolume(a, cmd_id, params, out) ==
    IF cmd_id = "volume" /\ out.result = "OK"
      THEN [a EXCEPT !.volume = Clamp(PyInt(params.volume).n)]
      ELSE a

\* LMSMediaPlayer.command, lines 113-183: the attributes of the entity when
\* command() returns `out`, given the attributes a when it was called.  No
\* branch assigns to self.attributes.
CommandWrites(a, cmd_id, params, out) == a

\* LMSMediaPlayer.command(cmd_id, params) runs to its return
CmdMediaPlayer ==
    /\ call.pc = "idle"
    /\ \E cmd_id \in MediaPlayerCmdIds, params \in MediaPlayerParams, fail \in 0..2 :
         LET out == MediaPlayerCommand(cmd_id, params, fail)
         IN  /\ call' = [pc |-> "done", entity |-> "mp", cmd_id |-> cmd_id,
                          params |-> params, fail |-> fail, kind |-> "",
                          favorites |-> <<>>, out |-> out]
             /\ attributes' = [attributes EXCEPT
                                  !["mp"] = CommandWrites(@, cmd_id, params, out)]
    /\ UNCHANGED <<hub, mapVars, pollVars, initVars>>

\* LMSRemote.command(cmd_id, params) runs to its return
CmdRemote ==
    /\ call.pc = "idle"
    /\ \E cmd_id \in RemoteCmdIds, params \in RemoteParams, fail \in 0..1,
          kind \in FailKinds, favorites \in FavoriteLists :
         call' = [pc |-> "done", entity |-> "rm", cmd_id |-> cmd_id,
                  params |-> params, fail |-> fail,
                  kind |-> IF fail = 0 THEN "" ELSE kind,
                  favorites |-> favorites,
                  out |-> RemoteCommand([RemoteSelf EXCEPT !.favorites = favorites],
                                        cmd_id, params, fail, kind)]
    /\ UNCHANGED <<attributes, hub, mapVars, pollVars, initVars>>

CmdNext == CmdMediaPlayer \/ CmdRemote

SpecCmd == CmdInit /\ [][CmdNext]_vars

(***************************************************************************)
(* SpecInit: the callers of _initialize_entities.  A call waits for        *)
(* initialization_lock, then runs the body; the body is suspended only at  *)
(* its two Gateway requests (server version, favorites).                   *)
(***************************************************************************)
\* Calls of _initialize_entities the model follows.
MaxCalls == 3

\* Who calls: the task created by main(), on_connect, the recovery of
\* on_subscribe_entities, and setup_handler on SetupComplete.
CallKinds == {"main", "connect", "subscribe", "setup"}

\* `ready` is history: entities_ready when the call was made.  `fav` is how
\* the favorites request of the pass ended and `favorites` the list its
\* remotes were built with.
NewCall(kind) == [kind |-> kind, pc |-> "wait", result |-> FALSE,
                  cleared |-> FALSE, built |-> FALSE, ready |-> entities_ready,
                  fav |-> "", favorites |-> <<>>]

\* The state main() leaves, lines 310-328
InitInit ==
    /\ config \in {CompleteConfig, EmptyConfig, HostOnlyConfig, PlayersOnlyConfig}
    /\ entities_ready = FALSE
    /\ initialization_lock = 0
    /\ callers = IF is_configured(config) THEN <<NewCall("main")>> ELSE <<>>
    /\ registry = EmptyRegistry
    /\ device_state = IF is_configured(config) THEN "" ELSE "DISCONNECTED"
    /\ clients = <<>>
    /\ client = 0
    /\ attributes = NewAttributes
    /\ hub = NewAttributes
    /\ cycle = IdleCycle
    /\ call = IdleCall
    /\ PollIdle

\* LMSConfig.load, lines 40-57: the configuration is read again from
\* config.json; the file is as the program left it or was changed outside it.
Loaded(cfg) == {cfg, HostOnlyConfig, PlayersOnlyConfig}

\* on_connect, lines 172-188
OnConnect ==
    /\ Len(callers) < MaxCalls
    /\ config' \in Loaded(config)
    /\ IF is_configured(config')
         THEN IF ~entities_ready
                THEN /\ callers' = Append(callers, NewCall("connect"))
                     /\ UNCHANGED device_state
                ELSE /\ device_state' = "CONNECTED"
                     /\ UNCHANGED callers
         ELSE /\ device_state' = "DISCONNECTED"
              /\ UNCHANGED callers
    /\ UNCHANGED <<entities_ready, initialization_lock, registry,
                   clients, client, attributes, hub, mapVars, cmdVars, pollVars>>

\* on_subscribe_entities, lines 222-233: the recovery attempt
OnSubscribeRecovery ==
    /\ Len(callers) < MaxCalls
    /\ ~entities_ready
    /\ is_configured(config)
    /\ callers' = Append(callers, NewCall("subscribe"))
    /\ UNCHANGED <<entities_ready, initialization_lock, registry, device_state,
                   config, clients, client, attributes, hub, mapVars, cmdVars,
                   pollVars>>

\* SetupFlow._handle_player_selection, lines 112-126: the configuration it
\* saves is the server the user entered and the selected players, all enabled.
SetupConfigs ==
    {[server_host |-> "lms",
      players |-> <<[player_id |-> "aa", name |-> <<"Kitchen">>, enabled |-> TRUE],
                    [player_id |-> "bb", name |-> <<"Living", " ", "Room">>,
                     enabled |-> TRUE]>>],
     [server_host |-> "lms2",
      players |-> <<[player_id |-> "dd", name |-> <<"Den">>, enabled |-> TRUE]>>]}

\* setup_handler, lines 54-62, after SetupFlow._handle_player_selection has
\* saved the selected configuration
OnSetupComplete ==
    /\ Len(callers) < MaxCalls
    /\ \E cfg \in SetupConfigs : config' = cfg
    /\ callers' = Append(callers, NewCall("setup"))
    /\ UNCHANGED <<entities_ready, initialization_lock, registry, device_state,
                   clients, client, attributes, hub, mapVars, cmdVars, pollVars>>

\* async with initialization_lock, line 83
LockFreeMutantIgnoresLock == TRUE

LockFree == initialization_lock = 0

\* line 84
AlreadyInitializedMutantNeverReturnsEarly == FALSE

AlreadyInitialized == entities_ready

\* lines 83-102: the lock is taken; the body returns early or clears the
\* collections, creates the client and requests the server version
Acquire(c) ==
    /\ callers[c].pc = "wait"
    /\ LockFree
    /\ IF AlreadyInitialized
         THEN /\ callers' = [callers EXCEPT ![c].pc = "done", ![c].result = TRUE]
              /\ UNCHANGED <<initialization_lock, registry, device_state,
                             clients, client>>
         ELSE IF ~is_configured(config)
           THEN /\ callers' = [callers EXCEPT ![c].pc = "done", ![c].result = FALSE]
                /\ UNCHANGED <<initialization_lock, registry, device_state,
                               clients, client>>
           ELSE /\ initialization_lock' = c
                /\ device_state' = "CONNECTING"
                /\ registry' = EmptyRegistry
                /\ clients' = Append(clients, [host |-> config.server_host,
                                               session |-> "open"])
                /\ client' = Len(clients) + 1
                /\ callers' = [callers EXCEPT ![c].pc = "version",
                                              ![c].cleared = TRUE]
    /\ UNCHANGED <<entities_ready, config, attributes, hub, mapVars, cmdVars,
                   pollVars>>

\* lines 102-107: get_server_version returned
VersionOk(c) ==
    /\ callers[c].pc = "version"
    /\ callers' = [callers EXCEPT ![c].pc = "favorites"]
    /\ UNCHANGED <<entities_ready, initialization_lock, registry, device_state,
                   config, clients, client, attributes, hub, mapVars, cmdVars,
                   pollVars>>

\* lines 113-116: get_server_version raised
VersionFailed(c) ==
    /\ callers[c].pc = "version"
    /\ device_state' = "ERROR"
    /\ callers' = [callers EXCEPT ![c].pc = "done", ![c].result = FALSE]
    /\ initialization_lock' = 0
    /\ UNCHANGED <<entities_ready, registry, config, clients, client,
                   attributes, hub, mapVars, cmdVars, pollVars>>

\* The answers of get_favorites: a loop_loop, or an exception.
FavoritesAnswers ==
    {[ok |-> FALSE, loop |-> <<>>]}
    \cup {[ok |-> TRUE, loop |-> l] : l \in {<<>>, LoadedFavorites, NamelessFavorites}}

\* A pass for which a failed favorites request is as fatal as a failed
\* version request.
FavoritesAnsweredMutantFatal(c) ==
    /\ callers[c].pc = "favorites"
    /\ \E ans \in FavoritesAnswers :
          IF ans.ok
            THEN /\ registry' = BuiltRegistry(config, ans.loop)
                 /\ entities_ready' = TRUE
                 /\ device_state' = "CONNECTED"
                 /\ callers' = [callers EXCEPT ![c].pc = "done", ![c].result = TRUE,
                                               ![c].built = TRUE, ![c].fav = "ok",
                                               ![c].favorites = ans.loop]
            ELSE /\ device_state' = "ERROR"
                 /\ callers' = [callers EXCEPT ![c].pc = "done", ![c].fav = "failed"]
                 /\ UNCHANGED <<registry, entities_ready>>
    /\ initialization_lock' = 0
    /\ UNCHANGED <<config, clients, client, attributes, hub, mapVars, cmdVars,
                   pollVars>>

\* lines 105-169: get_favorites returned or raised (lines 109-111:
\* favorites = []); the entities of the enabled players are created and
\* registered
FavoritesAnswered(c) ==
    /\ callers[c].pc = "favorites"
    /\ \E ans \in FavoritesAnswers :
          LET favorites == IF ans.ok THEN ans.loop ELSE <<>>
          IN  /\ registry' = BuiltRegistry(config, favorites)
              /\ callers' = [callers EXCEPT ![c].pc = "done", ![c].result = TRUE,
                                            ![c].built = TRUE,
                                            ![c].fav = IF ans.ok THEN "ok" ELSE "failed",
                                            ![c].favorites = favorites]
    /\ entities_ready' = TRUE
    /\ device_state' = "CONNECTED"
    /\ initialization_lock' = 0
    /\ UNCHANGED <<config, clients, client, attributes, hub, mapVars, cmdVars,
                   pollVars>>

InitNext ==
    \/ OnConnect
    \/ OnSubscribeRecovery
    \/ OnSetupComplete
    \/ \E c \in 1..Len(callers) : Acquire(c)
    \/ \E c \in 1..Len(callers) : VersionOk(c)
    \/ \E c \in 1..Len(callers) : VersionFailed(c)
    \/ \E c \in 1..Len(callers) : FavoritesAnswered(c)

SpecInit == InitInit /\ [][InitNext]_vars

(***************************************************************************)
(* Spec: the polling loops of the two entities of a player under hub       *)
(* events.  Every coroutine (loop task, event handler, deferred refresh)   *)
(* runs without interruption between two awaits that suspend it, on the    *)
(* single asyncio event loop; an action is one such run.                   *)
(***************************************************************************)
\* Loop tasks, subscribe events, unsubscribe / disconnect events and deferred
\* refreshes the model follows.
MaxTasks == 2
MaxSubscribes == 2
MaxStops == 2
MaxDeferred == 1

\* The status payload the server answers with in Spec (a status request may
\* also fail).
PollPayloads ==
    {[NoStatus EXCEPT !.power = JInt(1), !.mode = JStr("play"),
                      !.volume = JInt(42), !.playlist_loop = <<TrackA>>]}

\* asyncio.create_task(self._polling_loop()): the task, not yet run
NewTask(e) == [ent |-> e, pc |-> "new", cancel |-> FALSE, coverid |-> "",
               interval |-> 0, last |-> ""]

\* The polling state of the entities: _polling_active, _polling_task and the
\* loop tasks.
Polling == [active |-> polling_active, task |-> polling_task, tasks |-> tasks]

\* start_polling, lines 208-216 (LMSRemote: 470-477)
start_polling(P, e) ==
    IF P.active[e] THEN P
    ELSE [P EXCEPT !.active[e] = TRUE,
                   !.tasks = Append(@, NewTask(e)),
                   !.task[e] = Len(P.tasks) + 1]

\* Task.cancel(): a task that is not done gets CancelledError at its next run
Cancel(T, t) == IF T[t].pc = "done" THEN T ELSE [T EXCEPT ![t].cancel = TRUE]

\* stop_polling, lines 220-224 (LMSRemote: 481-485): up to `await
\* self._polling_task`.  suspended: the awaited task is not done yet.
stop_polling_call(P, e) ==
    LET t  == P.task[e]
        P1 == [P EXCEPT !.active[e] = FALSE]
    IN  IF t = 0 THEN [P |-> P1, suspended |-> FALSE]
        ELSE IF P.tasks[t].pc = "done"
          THEN [P |-> [P1 EXCEPT !.task[e] = 0], suspended |-> FALSE]
          ELSE [P |-> [P1 EXCEPT !.tasks = Cancel(@, t)], suspended |-> TRUE]

\* stop_polling, lines 225-228: the awaited task is done
stop_polling_resume(P, e) == [P EXCEPT !.task[e] = 0]

\* The loop tasks of e that can still run loop code.
Running(T, e) ==
    {t \in 1..Len(T) : T[t].ent = e /\ T[t].pc # "done" /\ ~T[t].cancel}

\* on_unsubscribe_entities, lines 270-281, and on_disconnect, lines 202-206:
\* stop_polling of each entity of `todo` in turn, up to the first one that is
\* suspended.  q and st are the history variables quiet and stopped.
RECURSIVE RunStops(_, _, _, _)
RunStops(P, todo, q, st) ==
    IF todo = <<>>
      THEN [P |-> P, todo |-> <<>>, wait |-> 0, alive |-> {}, quiet |-> q,
            stopped |-> st]
      ELSE LET e == Head(todo)
               r == stop_polling_call(P, e)
           IN  IF r.suspended
                 THEN [P |-> r.P, todo |-> todo, wait |-> P.task[e],
                       alive |-> Running(P.tasks, e), quiet |-> q, stopped |-> st]
                 ELSE RunStops(r.P, Tail(todo), [q EXCEPT ![e] = TRUE],
                               st \cup Running(P.tasks, e))

\* _polling_loop, lines 239-246: the sleep after an iteration (LMSRemote,
\* line 496: always 5)
Interval(e, a) ==
    IF e = "rm" THEN 5
    ELSE IF a.state = "PLAYING" THEN 2 ELSE IF a.state = "PAUSED" THEN 5 ELSE 10

\* The attribute writes and the push of one refresh step of e.
Written(e, r) ==
    /\ attributes' = [attributes EXCEPT ![e] = r.a]
    /\ hub' = IF r.publish THEN Push(hub, e, r.a) ELSE hub

\* The answers of a status request: a payload, or an exception.
Answers(e, a) ==
    {Fetched(e, a, status) : status \in PollPayloads} \cup {FetchError(e, a)}

\* The answers of the artwork request of a refresh.
ArtworkResults(a, coverid) ==
    {AfterArtwork(a, coverid, http) : http \in ArtworkAnswers(coverid)}

\* The sequence without its element h: a handler that has returned is
\* dropped.
Remove(seq, h) == SubSeq(seq, 1, h - 1) \o SubSeq(seq, h + 1, Len(seq))

NoHandler == [kind |-> "", todo |-> <<>>, pc |-> "done", coverid |-> "",
              wait |-> 0, alive |-> {}]

\* driver.entities, after a successful _initialize_entities
PollInit ==
    /\ attributes = NewAttributes
    /\ hub = NewAttributes
    /\ cycle = IdleCycle
    /\ call = IdleCall
    /\ PollIdle
    /\ InitIdle

unchangedElsewhere == UNCHANGED <<mapVars, cmdVars, initVars>>

(* ---- the polling loop, lines 230-253 (LMSRemote: 491-502) ---- *)

\* The loop condition `while self._polling_active`, then line 262: the status
\* request of update_attributes.
LoopTop(T, t, active) ==
    IF active[T[t].ent] THEN [T EXCEPT ![t].pc = "fetch", ![t].interval = 0]
                        ELSE [T EXCEPT ![t].pc = "done", ![t].interval = 0,
                                       ![t].last = ""]

\* A new task gets its first run.
TaskFirstRun(t) ==
    /\ tasks[t].pc = "new" /\ ~tasks[t].cancel
    /\ tasks' = LoopTop(tasks, t, polling_active)
    /\ UNCHANGED <<attributes, hub, polling_active, polling_task, handlers,
                   deferred, quiet, stopped, events>>
    /\ unchangedElsewhere

\* A loop that leaves `while` when the refresh of its iteration has failed.
TaskAfterMutantExitsOnFailure(T, t, e, r) ==
    IF r.a.state = "UNAVAILABLE"
      THEN [T EXCEPT ![t].pc = "done", ![t].coverid = ""]
      ELSE IF r.coverid # ""
        THEN [T EXCEPT ![t].pc = "artwork", ![t].coverid = r.coverid]
        ELSE [T EXCEPT ![t].pc = "sleep", ![t].coverid = "",
                       ![t].interval = Interval(e, r.a)]

\* After a refresh step with result r the task awaits the artwork or sleeps.
TaskAfter(T, t, e, r) ==
    IF r.coverid # ""
      THEN [T EXCEPT ![t].pc = "artwork", ![t].coverid = r.coverid]
      ELSE [T EXCEPT ![t].pc = "sleep", ![t].coverid = "",
                     ![t].interval = Interval(e, r.a)]

\* The status request of the task's iteration is answered.
TaskFetchAnswered(t) ==
    /\ tasks[t].pc = "fetch" /\ ~tasks[t].cancel
    /\ LET e == tasks[t].ent
       IN  \E r \in Answers(e, attributes[e]) :
             /\ Written(e, r)
             /\ tasks' = [TaskAfter(tasks, t, e, r) EXCEPT
                             ![t].last = IF r = FetchError(e, attributes[e])
                                           THEN "failed"
                                           ELSE IF tasks[t].last = "failed"
                                             THEN "recovered" ELSE "ok"]
    /\ UNCHANGED <<polling_active, polling_task, handlers, deferred, quiet,
                   stopped, events>>
    /\ unchangedElsewhere

\* The artwork request of the task's iteration is answered.
TaskArtworkAnswered(t) ==
    /\ tasks[t].pc = "artwork" /\ ~tasks[t].cancel
    /\ LET e == tasks[t].ent
       IN  \E r \in ArtworkResults(attributes[e], tasks[t].coverid) :
             /\ Written(e, r)
             /\ tasks' = TaskAfter(tasks, t, e, r)
    /\ UNCHANGED <<polling_active, polling_task, handlers, deferred, quiet,
                   stopped, events>>
    /\ unchangedElsewhere

\* asyncio.sleep(interval) is over: the loop condition is tested again.
TaskWake(t) ==
    /\ tasks[t].pc = "sleep" /\ ~tasks[t].cancel
    /\ tasks' = LoopTop(tasks, t, polling_active)
    /\ UNCHANGED <<attributes, hub, polling_active, polling_task, handlers,
                   deferred, quiet, stopped, events>>
    /\ unchangedElsewhere

\* CancelledError is thrown into the task at its await (lines 248-250; from
\* get_player_status and fetch_artwork_as_base64 it passes the `except
\* Exception` handlers): the loop is left.  A task that never ran just ends.
TaskCancelled(t) ==
    /\ tasks[t].pc # "done" /\ tasks[t].cancel
    /\ tasks' = [tasks EXCEPT ![t].pc = "done", ![t].cancel = FALSE,
                              ![t].coverid = "", ![t].interval = 0,
                              ![t].last = ""]
    /\ UNCHANGED <<attributes, hub, polling_active, polling_task, handlers,
                   deferred, quiet, stopped, events>>
    /\ unchangedElsewhere

(* ---- on_subscribe_entities, lines 235-257 ---- *)

\* The hub emits subscribe_entities(ids): the handler runs up to the status
\* request of the first entity's refresh.
OnSubscribe(ids) ==
    /\ events.subscribe < MaxSubscribes
    /\ events' = [events EXCEPT !.subscribe = @ + 1, !.disconnected = FALSE]
    /\ handlers' = Append(handlers,
                     [NoHandler EXCEPT !.kind = "subscribe", !.todo = ids,
                                       !.pc = "fetch"])
    /\ quiet' = [quiet EXCEPT ![Head(ids)] = FALSE]
    /\ UNCHANGED <<attributes, hub, polling_active, polling_task, tasks,
                   deferred, stopped>>
    /\ unchangedElsewhere

\* The refresh of the handler's entity e is over: start_polling(e), then the
\* status request of the next entity's refresh.
SubscribeStart(h, e) ==
    LET P    == start_polling(Polling, e)
        rest == Tail(handlers[h].todo)
    IN  /\ polling_active[e] \/ Len(tasks) < MaxTasks
        /\ polling_active' = P.active
        /\ polling_task' = P.task
        /\ tasks' = P.tasks
        /\ handlers' = IF rest = <<>> THEN Remove(handlers, h)
                       ELSE [handlers EXCEPT ![h].todo = rest,
                                             ![h].pc = "fetch",
                                             ![h].coverid = ""]
        /\ quiet' = [x \in Entities |->
                       IF x = e \/ (rest # <<>> /\ x = Head(rest))
                         THEN FALSE ELSE quiet[x]]

\* A handler that starts the polling as soon as the status request is
\* answered, with the artwork request of the refresh still to come.
SubscribeAfterMutantStartsEarly(h, e, r) ==
    IF r.coverid # ""
      THEN LET P == start_polling(Polling, e)
           IN  /\ polling_active[e] \/ Len(tasks) < MaxTasks
               /\ polling_active' = P.active
               /\ polling_task' = P.task
               /\ tasks' = P.tasks
               /\ quiet' = [quiet EXCEPT ![e] = FALSE]
               /\ handlers' = [handlers EXCEPT ![h].pc = "artwork",
                                               ![h].coverid = r.coverid]
      ELSE SubscribeStart(h, e)

\* The refresh step of a handler gave r: await the artwork, or go on.
SubscribeAfter(h, e, r) ==
    IF r.coverid # ""
      THEN /\ handlers' = [handlers EXCEPT ![h].pc = "artwork",
                                           ![h].coverid = r.coverid]
           /\ UNCHANGED <<polling_active, polling_task, tasks, quiet>>
      ELSE SubscribeStart(h, e)

SubscribeFetchAnswered(h) ==
    /\ handlers[h].kind = "subscribe" /\ handlers[h].pc = "fetch"
    /\ LET e == Head(handlers[h].todo)
       IN  \E r \in Answers(e, attributes[e]) :
             /\ Written(e, r)
             /\ SubscribeAfter(h, e, r)
    /\ UNCHANGED <<deferred, stopped, events>>
    /\ unchangedElsewhere

SubscribeArtworkAnswered(h) ==
    /\ handlers[h].kind = "subscribe" /\ handlers[h].pc = "artwork"
    /\ LET e == Head(handlers[h].todo)
       IN  \E r \in ArtworkResults(attributes[e], handlers[h].coverid) :
             /\ Written(e, r)
             /\ SubscribeAfter(h, e, r)
    /\ UNCHANGED <<deferred, stopped, events>>
    /\ unchangedElsewhere

(* ---- on_unsubscribe_entities, lines 270-281; on_disconnect, 202-206 ---- *)

\* The handler after the run r of its stop_polling calls; ev is the event
\* count at that point.
StopsRun(h, kind, r, ev) ==
    /\ events' = [ev EXCEPT !.disconnected =
                     IF kind = "disconnect" /\ r.todo = <<>> THEN TRUE ELSE @]
    /\ polling_active' = r.P.active
    /\ polling_task' = r.P.task
    /\ tasks' = r.P.tasks
    /\ quiet' = r.quiet
    /\ stopped' = r.stopped
    /\ LET rec == [NoHandler EXCEPT !.kind = kind, !.todo = r.todo,
                                    !.pc = "await", !.wait = r.wait,
                                    !.alive = r.alive]
       IN  handlers' =
             IF h > Len(handlers)
               THEN IF r.todo = <<>> THEN handlers ELSE Append(handlers, rec)
               ELSE IF r.todo = <<>> THEN Remove(handlers, h)
                                     ELSE [handlers EXCEPT ![h] = rec]

\* The hub emits unsubscribe_entities(ids).
OnUnsubscribe(ids) ==
    /\ events.stop < MaxStops
    /\ StopsRun(Len(handlers) + 1, "unsubscribe",
                RunStops(Polling, ids, quiet, stopped),
                [events EXCEPT !.stop = @ + 1, !.disconnected = FALSE])
    /\ UNCHANGED <<attributes, hub, deferred>>
    /\ unchangedElsewhere

\* The hub emits disconnect: every media player, then every remote.
OnDisconnect ==
    /\ events.stop < MaxStops
    /\ StopsRun(Len(handlers) + 1, "disconnect",
                RunStops(Polling, <<"mp", "rm">>, quiet, stopped),
                [events EXCEPT !.stop = @ + 1])
    /\ UNCHANGED <<attributes, hub, deferred>>
    /\ unchangedElsewhere

\* The task a stop_polling awaits is done: the call returns and the handler
\* goes on with its next entities.
StopResumed(h) ==
    /\ handlers[h].pc = "await"
    /\ tasks[handlers[h].wait].pc = "done"
    /\ LET e == Head(handlers[h].todo)
       IN  StopsRun(h, handlers[h].kind,
                    RunStops(stop_polling_resume(Polling, e),
                             Tail(handlers[h].todo),
                             [quiet EXCEPT ![e] = TRUE],
                             stopped \cup handlers[h].alive),
                    events)
    /\ UNCHANGED <<attributes, hub, deferred>>
    /\ unchangedElsewhere

(* ---- command and _deferred_update, lines 113-183 and 203-206 ---- *)

\* The commands the hub sends to the media player in Spec.
PollCommands == {"play_pause", "volume_up", "seek", "bogus"}

\* LMSMediaPlayer.command returns: a call that schedules the deferred refresh
\* leaves a _deferred_update task behind (line 173); any other call leaves
\* the entity as it was.
Command ==
    /\ Len(deferred) < MaxDeferred
    /\ \E cmd_id \in PollCommands, params \in MediaPlayerParams, fail \in 0..1 :
         /\ MediaPlayerCommand(cmd_id, params, fail).deferred
         /\ deferred' = Append(deferred,
                          [ent |-> "mp", pc |-> "sleep", coverid |-> ""])
    /\ quiet' = [quiet EXCEPT !["mp"] = FALSE]
    /\ UNCHANGED <<attributes, hub, polling_active, polling_task, tasks,
                   handlers, stopped, events>>
    /\ unchangedElsewhere

\* asyncio.sleep(0.1) is over: the status request of update_attributes.
DeferredWake(d) ==
    /\ deferred[d].pc = "sleep"
    /\ deferred' = [deferred EXCEPT ![d].pc = "fetch"]
    /\ UNCHANGED <<attributes, hub, polling_active, polling_task, tasks,
                   handlers, quiet, stopped, events>>
    /\ unchangedElsewhere

DeferredAfter(d, r) ==
    deferred' = IF r.coverid # ""
                  THEN [deferred EXCEPT ![d].pc = "artwork",
                                        ![d].coverid = r.coverid]
                  ELSE [deferred EXCEPT ![d].pc = "done", ![d].coverid = ""]

DeferredFetchAnswered(d) ==
    /\ deferred[d].pc = "fetch"
    /\ LET e == deferred[d].ent
       IN  \E r \in Answers(e, attributes[e]) :
             /\ Written(e, r)
             /\ DeferredAfter(d, r)
    /\ UNCHANGED <<polling_active, polling_task, tasks, handlers, quiet,
                   stopped, events>>
    /\ unchangedElsewhere

DeferredArtworkAnswered(d) ==
    /\ deferred[d].pc = "artwork"
    /\ LET e == deferred[d].ent
       IN  \E r \in ArtworkResults(attributes[e], deferred[d].coverid) :
             /\ Written(e, r)
             /\ DeferredAfter(d, r)
    /\ UNCHANGED <<polling_active, polling_task, tasks, handlers, quiet,
                   stopped, events>>
    /\ unchangedElsewhere

\* The entity id lists of a subscribe or unsubscribe event (the disconnect
\* event walks both entities).
IdLists == {<<"mp">>, <<"rm">>}

Init == PollInit

Next ==
    \/ \E ids \in IdLists : OnSubscribe(ids)
    \/ \E ids \in IdLists : OnUnsubscribe(ids)
    \/ OnDisconnect
    \/ Command
    \/ \E h \in 1..Len(handlers) : SubscribeFetchAnswered(h)
    \/ \E h \in 1..Len(handlers) : SubscribeArtworkAnswered(h)
    \/ \E h \in 1..Len(handlers) : StopResumed(h)
    \/ \E t \in 1..Len(tasks) : TaskFirstRun(t)
    \/ \E t \in 1..Len(tasks) : TaskFetchAnswered(t)
    \/ \E t \in 1..Len(tasks) : TaskArtworkAnswered(t)
    \/ \E t \in 1..Len(tasks) : TaskWake(t)
    \/ \E t \in 1..Len(tasks) : TaskCancelled(t)
    \/ \E d \in 1..Len(deferred) : DeferredWake(d)
    \/ \E d \in 1..Len(deferred) : DeferredFetchAnswered(d)
    \/ \E d \in 1..Len(deferred) : DeferredArtworkAnswered(d)

Spec == Init /\ [][Next]_vars

(***************************************************************************)
(* Claims about the status mapping (SpecMap).                              *)
(***************************************************************************)
\* The refresh has mapped a fetched payload without raising.
MappedOk ==
    /\ cycle.ent = "mp"
    /\ cycle.pc \in {"artwork", "done"}
    /\ cycle.fetched
    /\ MapStatus(cycle.status, attributes["mp"]).ok

\* The decision table of the specification, section 4.2.
TableState(status) ==
    LET mode == status.mode
    IN  IF Get(status.power, JInt(0)) = JInt(0) THEN "OFF"
        ELSE CASE mode = JStr("play")  -> "PLAYING"
               [] mode = JStr("pause") -> "PAUSED"
               [] mode = JStr("stop")  -> "ON"
               [] OTHER                -> "IDLE"

\* C8: for every payload of the power x mode cross-product the mapped state
\* is the one of the decision table: power 0 gives Off, else play gives
\* Playing, pause gives Paused, stop gives On and any other or absent mode
\* gives Idle.
C8_StateFollowsTable ==
    MappedOk => attributes["mp"].state = TableState(cycle.status)

\* C9: whenever a fetched payload has power 0, the state after the refresh
\* is Off, whatever the mode and the previous state.
C9_PowerZeroIsOff ==
    (cycle.ent = "mp" /\ cycle.pc = "done" /\ cycle.fetched
       /\ cycle.status.power = JInt(0))
        => attributes["mp"].state = "OFF"

\* C10: after a refresh whose first queued track carries cover id c the
\* artwork attribute is the URL reference base_url/music/c/cover.jpg, and the
\* refresh has neither requested the image nor stored an inline payload.
C10_ArtworkIsUrlReference ==
    (cycle.pc = "done" /\ MappedOk /\ CoverId(cycle.status) # "")
        => /\ attributes["mp"].media_image_url
                = get_artwork_url(CoverId(cycle.status))
           /\ cycle.artwork_requests = 0

(***************************************************************************)
(* Claims about the command dispatch (SpecCmd).                            *)
(***************************************************************************)
\* The call is one of volume set / up / down, on either entity.
IsVolumeCall(c) ==
    \/ c.entity = "mp" /\ c.cmd_id \in VolumeCommands
    \/ c.entity = "rm" /\ c.cmd_id = "send_cmd"
         /\ c.params.command \in {<<"volume", "up">>, <<"volume", "down">>}

\* C6: a command schedules a one-shot deferred refresh if and only if it
\* returned Ok and is not volume set / up / down, on the media player and on
\* the remote alike.
C6_DeferredIffOkNonVolume ==
    call.pc = "done"
        => (call.out.deferred <=> (call.out.result = "OK" /\ ~IsVolumeCall(call)))

\* The call is of a command that requires a parameter, and the parameter is
\* missing or malformed.
BadParameter(c) ==
    \/ /\ c.entity = "mp"
       /\ \/ c.cmd_id = "volume"
               /\ (~HasParam(c.params, "volume") \/ ~PyInt(c.params.volume).ok)
          \/ c.cmd_id = "seek"
               /\ (~HasParam(c.params, "media_position")
                     \/ ~PyInt(c.params.media_position).ok)
          \/ c.cmd_id = "repeat"
               /\ c.params.repeat \notin {JStr("OFF"), JStr("ONE"), JStr("ALL")}
          \/ c.cmd_id = "shuffle" /\ ~HasParam(c.params, "shuffle")
    \/ /\ c.entity = "rm"
       /\ c.cmd_id = "send_cmd"
       /\ \/ c.params.command = <<>>
          \/ /\ Len(c.params.command) >= 2
             /\ c.params.command[1] \in {"favorite", "sleep"}
             /\ c.params.command # <<"sleep", "cancel">>
             /\ ~PyInt(JStr(c.params.command[2])).ok

\* C7: a command whose required parameter is missing or malformed returns
\* BadRequest and issues no Gateway call.
C7_BadParameterIsBadRequest ==
    (call.pc = "done" /\ BadParameter(call))
        => (call.out.result = "BAD_REQUEST" /\ call.out.issued = <<>>)

(***************************************************************************)
(* Claims about the initialization (SpecInit).                             *)
(***************************************************************************)
\* The callers inside the build section (between the clear and the return).
InBuild == {c \in 1..Len(callers) : callers[c].pc \in {"version", "favorites"}}
Cleared == {c \in 1..Len(callers) : callers[c].cleared}
Built   == {c \in 1..Len(callers) : callers[c].built}
AllReturned == \A c \in 1..Len(callers) : callers[c].pc = "done"

\* C5 as stated: with a complete configuration at most one caller is inside
\* the build section, exactly one full build (clear, create, register)
\* occurs, and every other caller observes its result without clearing.
C5_ExactlyOneBuild ==
    /\ Cardinality(InBuild) <= 1
    /\ Cardinality(Cleared) <= 1
    /\ (AllReturned /\ Len(callers) >= 2) => Cardinality(Built) = 1

\* C5 as amended: at most one caller is inside the build section at a time
\* and at most one full build occurs; a caller that cleared and returned
\* either built or failed at the Gateway; and once a build has succeeded no
\* later step clears or registers anything, every caller that gets the lock
\* returning True.
C5_AtMostOneBuild ==
    /\ [](/\ Cardinality(InBuild) <= 1
          /\ Cardinality(Built) <= 1
          /\ (InBuild # {} => initialization_lock \in InBuild)
          /\ \A c \in Cleared :
               callers[c].pc = "done" => (callers[c].built \/ ~callers[c].result))
    /\ [][entities_ready =>
            /\ registry' = registry
            /\ \A c \in 1..Len(callers) :
                 /\ callers'[c].cleared = callers[c].cleared
                 /\ (callers[c].pc # "done" /\ callers'[c].pc = "done")
                       => callers'[c].result]_vars

\* Two callers overlapped, one built and the other returned True without
\* clearing anything.
C5_Witness ==
    \E c, d \in 1..Len(callers) :
        /\ callers[c].built
        /\ d # c
        /\ callers[d].kind \in {"connect", "subscribe"}
        /\ callers[d].pc = "done" /\ callers[d].result /\ ~callers[d].cleared

(***************************************************************************)
(* Claims about the polling lifecycle (Spec)                               *)
(***************************************************************************)
\* C1: for each entity at most one polling-loop task is alive at any time,
\* and a task that is alive is the one the entity's _polling_task refers to.
C1_OneLoopReferenced ==
    \A e \in Entities : Running(tasks, e) \subseteq {polling_task[e]}

\* C2: when stop_polling returns, the polling-loop task that was running when
\* it was called has fully exited (so it fetches, writes and publishes nothing
\* afterwards).
C2_StoppedLoopsExited ==
    \A t \in stopped : tasks[t].pc = "done"

\* C3: after stop_polling has returned for an entity, and until start_polling
\* or a subscribe refresh is next invoked on it, no step modifies the entity's
\* attributes or pushes them to the hub.  (A subscribe refresh that is still
\* in flight counts as invoked.)
Refreshing(e) ==
    \E h \in 1..Len(handlers) :
      handlers[h].kind = "subscribe" /\ Head(handlers[h].todo) = e

Stopped(e) == quiet[e] /\ ~Refreshing(e)

C3_QuietAfterStop ==
    [][\A e \in Entities :
         Stopped(e) /\ Stopped(e)' =>
           attributes'[e] = attributes[e] /\ hub'[e] = hub[e]]_vars

\* C4: start_polling is idempotent.  Called on an entity whose polling is
\* active it creates no task and leaves the handle and the flag as they were;
\* called twice in a row it is the same as called once; so after two
\* consecutive calls the entity is active with exactly one loop task running.
TwoStarts(e) == start_polling(start_polling(Polling, e), e)

C4_SecondStartIsNoOp ==
    \A e \in Entities :
      /\ TwoStarts(e) = start_polling(Polling, e)
      /\ polling_active[e] => start_polling(Polling, e) = Polling
      /\ Len(TwoStarts(e).tasks) <= Len(tasks) + 1

C4_TwoStartsOneLoop ==
    /\ C4_SecondStartIsNoOp
    /\ \A e \in Entities :
         /\ TwoStarts(e).active[e]
         /\ Cardinality(Running(TwoStarts(e).tasks, e)) = 1

(***************************************************************************)
(* Claims about the send_cmd commands of the remote (SpecCmd)              *)
(***************************************************************************)
\* The finished call is send_cmd of a command that starts with `word`_.
SendCmdOf(word) ==
    /\ call.pc = "done" /\ call.entity = "rm" /\ call.cmd_id = "send_cmd"
    /\ Len(call.params.command) >= 2
    /\ call.params.command[1] = word

\* The number N of favorite_N (a finished favorite call whose N is a number).
FavoriteN == PyInt(JStr(call.params.command[2])).n

\* C11: favorite_N is a 1-based index into the favorite list the remote was
\* built with.  N outside 1..len(favorites) gives NotFound and no Gateway
\* call; for N inside the range a Gateway call is the play-favorite call with
\* the id of the N-th favorite, and it is issued whenever that id is not empty.
C11_FavoriteIndexOneBased ==
    SendCmdOf("favorite") /\ PyInt(JStr(call.params.command[2])).ok =>
      IF FavoriteN \in 1..Len(call.favorites)
        THEN LET id == call.favorites[FavoriteN].id
             IN  IF id = "" THEN call.out.issued = <<>>
                 ELSE call.out.issued = <<GwCall("favorites playlist play", id, 0)>>
        ELSE call.out.result = "NOT_FOUND" /\ call.out.issued = <<>>

\* C11 witness: favorite_2 on a remote built with two favorites played the
\* second one; favorite_3 on the same remote is the other case.
C11_Witness ==
    /\ SendCmdOf("favorite")
    /\ call.params.command = <<"favorite", "2">>
    /\ Len(call.favorites) = 2
    /\ call.out.result = "OK"
    /\ call.out.issued = <<GwCall("favorites playlist play", "2.1", 0)>>

\* The players of the known player set whose sanitized name is the name of
\* the finished SYNC_<name> call.
SyncMatches ==
    {i \in 1..Len(RemoteSelf.all_players) :
       _sanitize_player_name(RemoteSelf.all_players[i].name)
         = Tail(call.params.command)}

C13_FetchFailureIsUnavailable ==
    /\ cycle.pc \in {"idle", "fetch"} => cycle.npub = 0
    /\ cycle.pc = "done" /\ ~cycle.fetched =>
         /\ attributes[cycle.ent].state = "UNAVAILABLE"
         /\ hub[cycle.ent] = attributes[cycle.ent]
         /\ cycle.npub = 1

\* C13 witness: the refresh of a media player that was Playing "Old" failed
\* at its status fetch.
C13_Witness ==
    /\ cycle.ent = "mp" /\ cycle.pc = "done" /\ ~cycle.fetched
    /\ attributes["mp"].media_title = "Old"
    /\ attributes["mp"].state = "UNAVAILABLE"
    /\ hub["mp"].state = "UNAVAILABLE"

(***************************************************************************)
(* Claims about the iterations of the polling loop (Spec)                  *)
(***************************************************************************)
\* The sleep the interval rule asks for in state x.
SleepTable(x) == IF x = "PLAYING" THEN 2 ELSE IF x = "PAUSED" THEN 5 ELSE 10

\* Task t ends an iteration whose refresh succeeded and goes to sleep.
IterationSucceeded(t) ==
    /\ t \in DOMAIN tasks
    /\ tasks[t].pc \in {"fetch", "artwork"}
    /\ tasks'[t].pc = "sleep"
    /\ attributes'[tasks[t].ent].state # "UNAVAILABLE"

\* C14: after each successful iteration the loop of an entity sleeps 2
\* seconds when the entity's state at that moment is Playing, 5 seconds when
\* it is Paused and 10 seconds in every other state.
C14_SleepFollowsState ==
    [][\A t \in DOMAIN tasks :
         IterationSucceeded(t) =>
           tasks'[t].interval = SleepTable(attributes'[tasks[t].ent].state)]_vars

\* The asyncio event loop runs every task that is ready: a loop task gets its
\* first run, its requests are answered (each carries a timeout), its sleep
\* ends and a cancellation is delivered.
TaskStep(t) ==
    /\ t \in DOMAIN tasks
    /\ \/ TaskFirstRun(t) \/ TaskFetchAnswered(t) \/ TaskArtworkAnswered(t)
       \/ TaskWake(t) \/ TaskCancelled(t)

\* One subscription of an entity followed by any unsubscribe and disconnect
\* events: the life of one polling loop.
LoopNext ==
    \/ events.subscribe = 0 /\ \E ids \in IdLists : OnSubscribe(ids)
    \/ \E ids \in IdLists : OnUnsubscribe(ids)
    \/ OnDisconnect
    \/ \E h \in 1..Len(handlers) : SubscribeFetchAnswered(h)
    \/ \E h \in 1..Len(handlers) : SubscribeArtworkAnswered(h)
    \/ \E h \in 1..Len(handlers) : StopResumed(h)
    \/ \E t \in 1..Len(tasks) : TaskFirstRun(t)
    \/ \E t \in 1..Len(tasks) : TaskFetchAnswered(t)
    \/ \E t \in 1..Len(tasks) : TaskArtworkAnswered(t)
    \/ \E t \in 1..Len(tasks) : TaskWake(t)
    \/ \E t \in 1..Len(tasks) : TaskCancelled(t)

SpecLoop == Init /\ [][LoopNext]_vars /\ \A t \in 1..MaxTasks : WF_vars(TaskStep(t))

\* stop_polling has reached the loop task t: the flag is down or the
\* cancellation is on its way.
StopReached(t) == tasks[t].cancel \/ ~polling_active[tasks[t].ent]

\* Loop task t has ended an iteration whose status request failed.
AfterFailure(t) ==
    t \in DOMAIN tasks /\ tasks[t].pc = "sleep" /\ tasks[t].last = "failed"

\* Loop task t is at a status request again, or stop_polling has ended it.
FetchingOrStopped(t) ==
    t \in DOMAIN tasks /\ (tasks[t].pc = "fetch" \/ tasks[t].pc = "done")

\* C15: a failed iteration never ends the polling loop.  A loop task leaves
\* the loop only when stop_polling has lowered the flag or cancelled it; a
\* task whose iteration failed is asleep, not ended, and goes on to the next
\* status request unless stop_polling ends it first.
C15_LoopSurvivesFailures ==
    /\ [][\A t \in DOMAIN tasks :
            (tasks[t].pc # "done" /\ tasks'[t].pc = "done") => StopReached(t)]_vars
    /\ \A t \in 1..MaxTasks : AfterFailure(t) ~> FetchingOrStopped(t)

\* C15 witness: the loop of the media player is at a status request again
\* after an iteration that failed, still active and not cancelled.
C15_Witness ==
    /\ Len(tasks) >= 1 /\ tasks[1].ent = "mp"
    /\ tasks[1].pc = "fetch" /\ tasks[1].last = "failed"
    /\ polling_active["mp"] /\ ~tasks[1].cancel /\ polling_task["mp"] = 1
    /\ events.stop = 0

(***************************************************************************)
(* Claims about the result codes of command() (SpecCmd)                    *)
(***************************************************************************)
\* A Gateway call of the finished command() call has failed.
GatewayFailed ==
    /\ call.pc = "done"
    /\ call.fail >= 1 /\ Len(call.out.issued) >= call.fail

\* C16: a Gateway failure during an otherwise valid command of the media
\* player or of the remote gives the result ServerError.
C16_GatewayFailureIsServerError ==
    GatewayFailed => call.out.result = "SERVER_ERROR"

\* The command surface: the command ids the media player and the remote
\* declare, and the send_cmd names of the remote (fixed names, and the
\* SYNC_, favorite_ and sleep_ families).
MediaPlayerSurface ==
    {"on", "off", "toggle", "play_pause", "stop", "previous", "next", "volume",
     "volume_up", "volume_down", "mute_toggle", "mute", "unmute", "seek",
     "repeat", "shuffle"}
RemoteSurface == {"on", "off", "toggle", "send_cmd"}
SendCmdSurface ==
    {<<"play">>, <<"pause">>, <<"stop">>, <<"play", "pause">>, <<"next">>,
     <<"previous">>, <<"volume", "up">>, <<"volume", "down">>,
     <<"mute", "toggle">>, <<"UNSYNC">>, <<"sleep", "cancel">>,
     <<"playlist", "clear">>, <<"playlist", "add", "10", "songs">>,
     <<"playlist", "add", "5", "albums">>, <<"power", "on">>, <<"power", "off">>,
     <<"power", "toggle">>}
SendCmdFamilies == {"SYNC", "favorite", "sleep"}

\* The finished command() call carried an identifier outside the surface.
OutsideSurface ==
    /\ call.pc = "done"
    /\ \/ call.entity = "mp" /\ call.cmd_id \notin MediaPlayerSurface
       \/ call.entity = "rm" /\ call.cmd_id \notin RemoteSurface
       \/ /\ call.entity = "rm" /\ call.cmd_id = "send_cmd"
          /\ call.params.command # <<>>
          /\ call.params.command \notin SendCmdSurface
          /\ ~(Len(call.params.command) >= 2
               /\ call.params.command[1] \in SendCmdFamilies)

\* C17: a command identifier outside the surface (an unknown command id of
\* either entity, an unknown send_cmd name) returns NotImplemented, issues no
\* Gateway call and schedules no refresh.
C17_UnknownIsNotImplemented ==
    OutsideSurface =>
      /\ call.out.result = "NOT_IMPLEMENTED"
      /\ call.out.issued = <<>>
      /\ ~call.out.deferred

\* C17 witness: the media player was given "fast_forward", which it does not
\* handle, with parameters and a Gateway that would fail.
C17_Witness ==
    /\ call.pc = "done" /\ call.entity = "mp" /\ call.cmd_id = "fast_forward"
    /\ call.params.volume = JInt(42) /\ call.fail = 1
    /\ call.out = Outcome("NOT_IMPLEMENTED", <<>>, FALSE)

(***************************************************************************)
(* Claims about the outcome of an initialization pass (SpecInit)           *)
(***************************************************************************)
\* The players of the configuration that are enabled.
EnabledPlayers ==
    {config.players[i].player_id :
       i \in {j \in 1..Len(config.players) : config.players[j].enabled}}

\* Outcome (a): Ready, the entities of all enabled players registered, device
\* state Connected.
OutcomeReady ==
    /\ entities_ready
    /\ registry.media_players = EnabledPlayers
    /\ registry.remotes = EnabledPlayers
    /\ registry.available = {<<"media_player", p>> : p \in EnabledPlayers}
                              \cup {<<"remote", p>> : p \in EnabledPlayers}
    /\ device_state = "CONNECTED"

\* Outcome (b): not Ready, no entity registered, device state Error.
OutcomeError ==
    /\ ~entities_ready
    /\ registry = EmptyRegistry
    /\ device_state = "ERROR"

\* C18: a pass of _initialize_entities that got past the configuration check
\* ends Ready with the entities of all enabled players registered and device
\* state Connected, or not Ready with nothing registered and device state
\* Error; a pass whose server-version request fails ends the second way.
C18_PassEndsReadyOrError ==
    [][\A c \in DOMAIN callers :
         (callers[c].pc \in {"version", "favorites"} /\ callers'[c].pc = "done")
           => /\ OutcomeReady' \/ OutcomeError'
              /\ callers[c].pc = "version" => OutcomeError']_vars

(***************************************************************************)
(* Claims about the hub disconnect (Spec)                                  *)
(***************************************************************************)
\* Entity e is left as the returned disconnect handler left it: its flag is
\* down and nothing has started or refreshed it since.
LeftByDisconnect(e) ==
    events.disconnected /\ quiet[e] /\ ~polling_active[e]

\* C19: a hub disconnect stops the polling of every media player and remote
\* entity and leaves the Gateway client untouched: once the handler has
\* returned no loop task of an entity it stopped is running, and the entities
\* still use the same client with its session open.
C19_DisconnectStopsPollingOnly ==
    /\ \A e \in Entities : LeftByDisconnect(e) => Running(tasks, e) = {}
    /\ events.disconnected =>
         client = 1 /\ clients = <<[host |-> "lms", session |-> "open"]>>

\* C20: when the setup flow completes while the entities are already Ready,
\* the call of _initialize_entities it makes leaves the registered entities
\* equal to the enabled players of the saved configuration and the Gateway
\* client pointing at the configured server.
C20_SetupChangeRebuilds ==
    [][\A c \in DOMAIN callers :
         (/\ callers[c].kind = "setup" /\ callers[c].ready
          /\ callers[c].pc # "done" /\ callers'[c].pc = "done")
           => /\ registry'.media_players = EnabledPlayers'
              /\ registry'.remotes = EnabledPlayers'
              /\ client' # 0
              /\ clients'[client'].host = config'.server_host]_vars

(***************************************************************************)
(* SpecSub: a subscribe event that arrives before the entities are ready   *)
(* (on_subscribe_entities, lines 222-257), with the initialization passes  *)
(* of SpecInit and the refresh and loop steps of Spec.                     *)
(***************************************************************************)
SubIdLists == IdLists \cup {<<"mp", "rm">>}

\* lines 237-238 and 248-249: the entity id is the id of a media player or of
\* a remote in driver.media_players / driver.remotes ("mp" and "rm" are the
\* entities of player aa).
EntityRegistered(e) ==
    IF e = "mp" THEN "aa" \in registry.media_players
                ELSE "aa" \in registry.remotes

\* lines 236-257: the ids of the event that the loops find an entity for
SubscribedMutantNone(ids) == <<>>

Subscribed(ids) == SelectSeq(ids, EntityRegistered)

\* lines 222-233: the event arrives while entities_ready is False.  With a
\* complete configuration the handler awaits _initialize_entities; without
\* one it returns.
SubscribeBeforeReady(ids) ==
    /\ events.subscribe = 0
    /\ ~entities_ready
    /\ Len(callers) < MaxCalls
    /\ events' = [events EXCEPT !.subscribe = @ + 1]
    /\ IF is_configured(config)
         THEN /\ callers' = Append(callers, NewCall("subscribe"))
              /\ handlers' = Append(handlers,
                               [NoHandler EXCEPT !.kind = "subscribe",
                                                 !.todo = ids, !.pc = "init",
                                                 !.wait = Len(callers) + 1])
         ELSE UNCHANGED <<callers, handlers>>
    /\ UNCHANGED <<attributes, hub, mapVars, cmdVars, polling_active,
                   polling_task, tasks, deferred, quiet, stopped,
                   entities_ready, initialization_lock, registry, device_state,
                   config, clients, client>>

\* lines 228-235: _initialize_entities has returned to the handler.  Not
\* ready: the handler returns.  Ready: it goes on to the status request of
\* the refresh of the first id it finds an entity for.
SubscribeRecovered(h) ==
    /\ handlers[h].kind = "subscribe" /\ handlers[h].pc = "init"
    /\ callers[handlers[h].wait].pc = "done"
    /\ LET todo == IF entities_ready THEN Subscribed(handlers[h].todo) ELSE <<>>
       IN  handlers' = IF todo = <<>> THEN Remove(handlers, h)
                       ELSE [handlers EXCEPT ![h].todo = todo, ![h].pc = "fetch",
                                             ![h].wait = 0]
    /\ UNCHANGED <<attributes, hub, mapVars, cmdVars, polling_active,
                   polling_task, tasks, events, deferred, quiet, stopped,
                   initVars>>

SubNext ==
    \/ \E ids \in SubIdLists : SubscribeBeforeReady(ids)
    \/ OnConnect
    \/ \E c \in 1..Len(callers) : Acquire(c)
    \/ \E c \in 1..Len(callers) : VersionOk(c)
    \/ \E c \in 1..Len(callers) : VersionFailed(c)
    \/ \E c \in 1..Len(callers) : FavoritesAnswered(c)
    \/ \E h \in 1..Len(handlers) : SubscribeRecovered(h)
    \/ \E h \in 1..Len(handlers) : SubscribeFetchAnswered(h)
    \/ \E h \in 1..Len(handlers) : SubscribeArtworkAnswered(h)
    \/ \E t \in 1..Len(tasks) : TaskFirstRun(t)
    \/ \E t \in 1..Len(tasks) : TaskFetchAnswered(t)
    \/ \E t \in 1..Len(tasks) : TaskArtworkAnswered(t)
    \/ \E t \in 1..Len(tasks) : TaskWake(t)

SpecSub == InitInit /\ [][SubNext]_vars

(***************************************************************************)
(* Claims about the subscribe event (SpecSub)                              *)
(***************************************************************************)
\* While the entities are not ready nothing has refreshed and no loop exists.
NothingSubscribed ==
    /\ tasks = <<>>
    /\ polling_active = [e \in Entities |-> FALSE]
    /\ attributes = NewAttributes /\ hub = NewAttributes
    /\ \A h \in 1..Len(handlers) : handlers[h].pc = "init"

\* The handler h (the only one of SpecSub) has finished the refresh of the
\* entity at the head of its list in this step.
EntityHandled(h) ==
    /\ handlers[h].pc \in {"fetch", "artwork"}
    /\ \/ handlers' = <<>>
       \/ handlers'[h].todo # handlers[h].todo

\* C21: a subscribe event that arrives before the entities are ready first
\* attempts the initialization.  While the system is not ready the event
\* starts no loop and refreshes nothing; when the attempt leaves it ready,
\* the handler goes on in the same event to refresh each subscribed entity
\* and to start its polling.
C21_SubscribeRecovers ==
    /\ [](~entities_ready => NothingSubscribed)
    /\ [][/\ (events.subscribe = 0 /\ events'.subscribe = 1 /\ is_configured(config))
               => /\ Len(callers') = Len(callers) + 1
                  /\ callers'[Len(callers')].kind = "subscribe"
                  /\ handlers' # <<>>
          /\ \A h \in 1..Len(handlers) :
               /\ (handlers[h].pc = "init" /\ handlers' # handlers
                   /\ entities_ready)
                    => LET ids == handlers[h].todo
                           reg == {i \in 1..Len(ids) : EntityRegistered(ids[i])}
                       IN  reg # {} =>
                             /\ handlers' # <<>>
                             /\ handlers'[h].pc = "fetch"
                             /\ \A i \in reg :
                                  \E j \in 1..Len(handlers'[h].todo) :
                                    handlers'[h].todo[j] = ids[i]
               /\ EntityHandled(h) =>
                    LET e == Head(handlers[h].todo)
                    IN  /\ polling_active'[e]
                        /\ polling_task'[e] \in Running(tasks', e)
                        /\ hub'[e] = attributes'[e]
                        /\ hub'[e].state # "UNKNOWN"]_vars

\* C21 witness: the subscribe event for both entities arrived before Ready,
\* its own initialization pass built the entities, and the handler has
\* returned with both entities refreshed and polling.
C21_Witness ==
    /\ events.subscribe = 1 /\ handlers = <<>> /\ entities_ready
    /\ \E c \in 1..Len(callers) : callers[c].kind = "subscribe" /\ callers[c].built
    /\ polling_active = [e \in Entities |-> TRUE]
    /\ hub["mp"].state # "UNKNOWN" /\ hub["rm"].state # "UNKNOWN"

(***************************************************************************)
(* Claims about the refresh of a subscribe event (Spec)                    *)
(***************************************************************************)
\* C22: a polling task is created only by a subscribe handler at the end of
\* the refresh of that entity: the status request (and the artwork request,
\* if any) has been answered and the snapshot published in the step that
\* creates the task, so the first publish precedes the first run of the loop.
C22_RefreshBeforeLoop ==
    [][\A t \in 1..Len(tasks') :
         t > Len(tasks) =>
           LET e == tasks'[t].ent
           IN  /\ tasks'[t].pc = "new"
               /\ \E h \in 1..Len(handlers) :
                    /\ handlers[h].kind = "subscribe"
                    /\ handlers[h].pc \in {"fetch", "artwork"}
                    /\ Head(handlers[h].todo) = e
               /\ hub'[e] = attributes'[e]
               /\ hub'[e].state # "UNKNOWN"]_vars

\* C22 witness: the loop task of the media player exists and has not run yet;
\* the refresh of the subscribe event has published the playing track.
C22_Witness ==
    /\ Len(tasks) = 1 /\ tasks[1].ent = "mp" /\ tasks[1].pc = "new"
    /\ handlers = <<>> /\ events.subscribe = 1
    /\ hub["mp"].state = "PLAYING" /\ hub["mp"].media_title = "A"

(***************************************************************************)
(* Claims about the configuration check of a pass (SpecInit)               *)
(***************************************************************************)
\* The configuration has a server address and at least one player.
Complete == config.server_host # "" /\ Len(config.players) >= 1

\* C23: a pass of _initialize_entities enters its build phase (device state
\* Connecting, collections cleared, Gateway client created) only with a
\* configuration that has a server address and at least one player; with any
\* other configuration it returns and leaves the device state, the entity
\* collections and the Gateway client as they were.
C23_BuildOnlyWhenConfigured ==
    [][\A c \in 1..Len(callers) :
         (callers[c].pc = "wait" /\ callers'[c].pc # "wait") =>
           /\ callers'[c].pc = "version" =>
                /\ Complete
                /\ device_state' = "CONNECTING"
                /\ registry' = EmptyRegistry
                /\ client' = Len(clients')
           /\ ~Complete =>
                /\ callers'[c].pc = "done"
                /\ device_state' = device_state
                /\ registry' = registry
                /\ clients' = clients /\ client' = client
                /\ entities_ready' = entities_ready]_vars

\* C23 witness: a pass has returned False without clearing anything, under a
\* configuration with a server address and no player.
C23_Witness ==
    /\ config = HostOnlyConfig
    /\ ~entities_ready /\ clients = <<>> /\ client = 0
    /\ \E c \in 1..Len(callers) :
         callers[c].pc = "done" /\ ~callers[c].result /\ ~callers[c].cleared

\* C24: a failure of the favorites request is not fatal.  A pass whose
\* version request succeeded and whose favorites request failed ends Ready
\* with device state Connected, and the remote of every enabled player is
\* built, with an empty favorite list.
C24_FavoritesFailureNotFatal ==
    [][\A c \in 1..Len(callers) :
         (callers[c].pc = "favorites" /\ callers'[c].pc = "done"
          /\ callers'[c].fav = "failed")
           => /\ entities_ready'
              /\ device_state' = "CONNECTED"
              /\ callers'[c].result
              /\ callers'[c].favorites = <<>>
              /\ registry'.remotes = EnabledPlayers'
              /\ registry'.media_players = EnabledPlayers']_vars

\* C24 witness: the pass of main() ended Ready after a failed favorites
\* request, with the remotes of players aa and bb registered.
C24_Witness ==
    /\ Len(callers) >= 1 /\ callers[1].pc = "done" /\ callers[1].fav = "failed"
    /\ entities_ready /\ device_state = "CONNECTED"
    /\ registry.remotes = {"aa", "bb"}

(***************************************************************************)
(* Claims about the numeric fields and the track fields of a payload       *)
(* (SpecMap).                                                              *)
(***************************************************************************)
\* The payload field is absent or does not parse as a number.
NotNumeric(v) == v = JNone \/ ~PyInt(v).ok

\* C25: in a fetched payload an absent or non-numeric time, duration or
\* mixer volume is no error: the refresh does not end Unavailable, and the
\* position, the duration or the volume it could not read is 0.
C25_NumericFieldsDefaultToZero ==
    (cycle.ent = "mp" /\ cycle.pc \in {"artwork", "done"} /\ cycle.fetched)
        => /\ attributes["mp"].state # "UNAVAILABLE"
           /\ NotNumeric(cycle.status.time) => attributes["mp"].media_position = 0
           /\ NotNumeric(cycle.status.duration) => attributes["mp"].media_duration = 0
           /\ NotNumeric(cycle.status.volume) => attributes["mp"].volume = 0

\* C26: after a successful refresh the title, artist and album are those of
\* the first queued track; with no queued track the title, artist, album
\* and artwork are all empty, whatever they were before.
C26_TrackFieldsFromFirstOrEmpty ==
    (MappedOk /\ cycle.pc = "done")
        => LET a == attributes["mp"]
               loop == cycle.status.playlist_loop
           IN  IF Len(loop) > 0
                 THEN /\ a.media_title = loop[1].title
                      /\ a.media_artist = loop[1].artist
                      /\ a.media_album = loop[1].album
                 ELSE /\ a.media_title = "" /\ a.media_artist = ""
                      /\ a.media_album = "" /\ a.media_image_url = <<>>

\* C26 witness: a refresh with an empty queue has ended on an entity that
\* kept its earlier volume 10, so its earlier track fields were set, and
\* they are now empty.
C26_Witness ==
    /\ MappedOk /\ cycle.pc = "done"
    /\ cycle.status.playlist_loop = <<>> /\ cycle.status.volume = JNone
    /\ attributes["mp"].volume = 10
    /\ attributes["mp"].media_title = "" /\ attributes["mp"].media_image_url = <<>>

(***************************************************************************)
(* Claim about the volume attribute after a volume command (SpecCmd).      *)
(***************************************************************************)
\* The level the Gateway is asked for: v clamped to 0..100.
ClampedLevel(v) == IF v < 0 THEN 0 ELSE IF v > 100 THEN 100 ELSE v

\* C27: when command() of the media player returns Ok for volume set v, the
\* volume attribute of the entity is v clamped to 0..100 at that moment.
C27_VolumeSetIsOptimistic ==
    (call.pc = "done" /\ call.entity = "mp" /\ call.cmd_id = "volume"
       /\ call.out.result = "OK")
        => attributes["mp"].volume = ClampedLevel(PyInt(call.params.volume).n)

(***************************************************************************)
(* SpecOverlap: the polling loop of the media player and the deferred      *)
(* refresh of a command, with a server whose status changes between two    *)
(* requests.  Both run update_attributes on the same entity object; each   *)
(* is suspended at its status request and at its artwork request.          *)
(***************************************************************************)
\* The two statuses of the player: playing a track with a cover, and paused
\* on a track without one.
OverlapPayloads ==
    {[NoStatus EXCEPT !.power = JInt(1), !.mode = JStr("play"),
                      !.volume = JInt(42), !.playlist_loop = <<TrackA>>],
     [NoStatus EXCEPT !.power = JInt(1), !.mode = JStr("pause"),
                      !.volume = JInt(7), !.playlist_loop = <<TrackNoCover>>]}

OverlapAnswers(e, a) ==
    {Fetched(e, a, status) : status \in OverlapPayloads} \cup {FetchError(e, a)}

\* on_subscribe_entities has refreshed the media player (the request failed)
\* and started its loop.
OverlapInit ==
    /\ attributes = [NewAttributes EXCEPT !["mp"] = MarkUnavailable(@)]
    /\ hub = attributes
    /\ cycle = IdleCycle
    /\ call = IdleCall
    /\ polling_active = [e \in Entities |-> e = "mp"]
    /\ polling_task = [e \in Entities |-> IF e = "mp" THEN 1 ELSE 0]
    /\ tasks = <<NewTask("mp")>>
    /\ handlers = <<>>
    /\ events = [subscribe |-> 1, stop |-> 0, disconnected |-> FALSE]
    /\ deferred = <<>>
    /\ quiet = [e \in Entities |-> FALSE]
    /\ stopped = {}
    /\ InitIdle

\* The status request of the task's iteration is answered.
OverlapTaskFetchAnswered(t) ==
    /\ tasks[t].pc = "fetch" /\ ~tasks[t].cancel
    /\ LET e == tasks[t].ent
       IN  \E r \in OverlapAnswers(e, attributes[e]) :
             /\ Written(e, r)
             /\ tasks' = [TaskAfter(tasks, t, e, r) EXCEPT
                             ![t].last = IF r = FetchError(e, attributes[e])
                                           THEN "failed"
                                           ELSE IF tasks[t].last = "failed"
                                             THEN "recovered" ELSE "ok"]
    /\ UNCHANGED <<polling_active, polling_task, handlers, deferred, quiet,
                   stopped, events>>
    /\ unchangedElsewhere

\* The status request of the deferred refresh is answered.
OverlapDeferredFetchAnswered(d) ==
    /\ deferred[d].pc = "fetch"
    /\ LET e == deferred[d].ent
       IN  \E r \in OverlapAnswers(e, attributes[e]) :
             /\ Written(e, r)
             /\ DeferredAfter(d, r)
    /\ UNCHANGED <<polling_active, polling_task, tasks, handlers, quiet,
                   stopped, events>>
    /\ unchangedElsewhere

OverlapNext ==
    \/ Command
    \/ \E t \in 1..Len(tasks) : TaskFirstRun(t)
    \/ \E t \in 1..Len(tasks) : OverlapTaskFetchAnswered(t)
    \/ \E t \in 1..Len(tasks) : TaskArtworkAnswered(t)
    \/ \E t \in 1..Len(tasks) : TaskWake(t)
    \/ \E d \in 1..Len(deferred) : DeferredWake(d)
    \/ \E d \in 1..Len(deferred) : OverlapDeferredFetchAnswered(d)
    \/ \E d \in 1..Len(deferred) : DeferredArtworkAnswered(d)

SpecOverlap == OverlapInit /\ [][OverlapNext]_vars

(***************************************************************************)
(* Claim about overlapping refreshes (SpecOverlap).                        *)
(***************************************************************************)
\* The snapshots a refresh of payload `status` alone ends with: every field
\* mapped from `status`, and the image of its cover id (or none).
SnapshotsOf(status) ==
    LET a == MapStatus(status, InitialAttributes).a
    IN  IF CoverId(status) = "" THEN {ClearArtwork(a)}
        ELSE {StoreArtwork(a, CoverId(status), http) :
                 http \in ArtworkAnswers(CoverId(status))}

\* C28: every snapshot the hub holds of a refreshed media player (its state
\* is one a payload maps to) has all its fields from one single payload,
\* also when the poll refresh and the deferred refresh overlap.
C28_SnapshotFromOnePayload ==
    hub["mp"].state \notin {"UNKNOWN", "UNAVAILABLE"}
        => \E status \in OverlapPayloads : hub["mp"] \in SnapshotsOf(status)

(***************************************************************************)
(* Claim about the clear of an initialization pass and the polling loops   *)
(* (SpecSub).                                                              *)
(***************************************************************************)
\* Entity e is polled: its flag is set, its handle holds a task, or a loop
\* task of it can still run.
Polled(e) ==
    polling_active[e] \/ polling_task[e] # 0 \/ Running(tasks, e) # {}

\* C29: at the step in which a pass clears the entity collections no entity
\* is polled, and while an entity is polled the registered entities are not
\* replaced: no loop outlives the generation of entities it was started for.
C29_ClearFindsNoLoop ==
    [][/\ \A c \in 1..Len(callers) :
            (~callers[c].cleared /\ callers'[c].cleared)
              => \A e \in Entities : ~Polled(e)
       /\ (\E e \in Entities : Polled(e)) => registry' = registry]_vars

\* C29 witness: two passes have cleared the collections (the first one
\* failed), the second has registered the entities, and the loop of the
\* media player is running.
C29_Witness ==
    /\ \E c, d \in 1..Len(callers) :
         /\ c # d /\ callers[c].cleared /\ callers[d].cleared
         /\ ~callers[c].result /\ callers[d].built
    /\ polling_active["mp"] /\ Running(tasks, "mp") # {}

(***************************************************************************)
(* Claim about the sleep after a failed iteration (SpecLoop).              *)
(***************************************************************************)
\* C30: a loop iteration whose status request failed is followed by a sleep
\* of 10 seconds before the next request, in the loop of the media player
\* and in the loop of the remote.
C30_FailureBacksOffTen ==
    [][\A t \in DOMAIN tasks :
         (tasks[t].pc = "fetch" /\ tasks'[t].pc = "sleep"
          /\ tasks'[t].last = "failed")
           => tasks'[t].interval = 10]_vars

(***************************************************************************)
(* Claims about the Gateway sessions of the initialization passes          *)
(* (SpecInit).                                                             *)
(***************************************************************************)
\* The clients whose HTTP session is open.
OpenSessions == {i \in 1..Len(clients) : clients[i].session = "open"}

\* C31: at most one session opened by the initialization passes is open,
\* and an open session is the one of the current client, the only one the
\* shutdown of main() closes.
C31_OneOpenSession ==
    /\ Cardinality(OpenSessions) <= 1
    /\ \A i \in OpenSessions : i = client

(***************************************************************************)
(* SpecIds: the requests of one LMSClient.  The polling loops of the media *)
(* player and of the remote, a command of the media player and its         *)
(* deferred refresh all call send_command on the client of the driver;     *)
(* each is suspended while its request is in flight.  The client record    *)
(* carries _request_id, and as history the ids of the payloads it has      *)
(* posted, in order.                                                       *)
(***************************************************************************)
\* Requests the client posts in SpecIds.
MaxRequests == 7

\* _get_request_id, lines 40-43, with a counter that is read but not advanced
_get_request_idMutantNoIncrement(c) == [c |-> c, id |-> c.request_id + 1]

\* _get_request_id, lines 40-43
_get_request_id(c) ==
    [c |-> [c EXCEPT !.request_id = @ + 1], id |-> c.request_id + 1]

\* send_command, lines 53-59: up to the post of the payload
send_command(c) ==
    LET r == _get_request_id(c)
    IN  [r.c EXCEPT !.sent = Append(@, r.id)]

\* The caller posts a request on the client of the driver.
Posts ==
    /\ clients[client].request_id < MaxRequests
    /\ clients' = [clients EXCEPT ![client] = send_command(@)]

\* After a successful pass (its version and favorites requests had ids 1 and
\* 2) both entities of the player were subscribed and their loops started.
IdsInit ==
    /\ attributes = NewAttributes
    /\ hub = NewAttributes
    /\ cycle = IdleCycle
    /\ call = IdleCall
    /\ polling_active = [e \in Entities |-> TRUE]
    /\ polling_task = [e \in Entities |-> IF e = "mp" THEN 1 ELSE 2]
    /\ tasks = <<NewTask("mp"), NewTask("rm")>>
    /\ handlers = <<>>
    /\ events = [subscribe |-> 2, stop |-> 0, disconnected |-> FALSE]
    /\ deferred = <<>>
    /\ quiet = [e \in Entities |-> FALSE]
    /\ stopped = {}
    /\ entities_ready = TRUE
    /\ initialization_lock = 0
    /\ callers = <<>>
    /\ registry = BuiltRegistry(CompleteConfig, LoadedFavorites)
    /\ device_state = "CONNECTED"
    /\ config = CompleteConfig
    /\ clients = <<[host |-> CompleteConfig.server_host, session |-> "open",
                    request_id |-> 2, sent |-> <<1, 2>>]>>
    /\ client = 1

\* _polling_loop: the first run of the task or the end of its sleep, then
\* the status request of the refresh is posted.
IdsTaskRun(t) ==
    /\ tasks[t].pc \in {"new", "sleep"} /\ ~tasks[t].cancel
    /\ tasks' = LoopTop(tasks, t, polling_active)
    /\ Posts
    /\ UNCHANGED <<attributes, hub, mapVars, cmdVars, polling_active,
                   polling_task, handlers, events, deferred, quiet, stopped,
                   entities_ready, initialization_lock, callers, registry,
                   device_state, config, client>>

\* _deferred_update: the sleep is over, the status request is posted.
IdsDeferredWake(d) ==
    /\ deferred[d].pc = "sleep"
    /\ deferred' = [deferred EXCEPT ![d].pc = "fetch"]
    /\ Posts
    /\ UNCHANGED <<attributes, hub, mapVars, cmdVars, polling_active,
                   polling_task, tasks, handlers, events, quiet, stopped,
                   entities_ready, initialization_lock, callers, registry,
                   device_state, config, client>>

\* The commands of the media player in SpecIds: two Gateway calls, or one.
IdsCommands == {"on", "play_pause"}

\* LMSMediaPlayer.command: the first Gateway call of the command is posted.
IdsCommandCalled ==
    /\ call.pc = "idle"
    /\ \E cmd_id \in IdsCommands :
         call' = [IdleCall EXCEPT !.pc = "await", !.entity = "mp",
                                  !.cmd_id = cmd_id,
                                  !.out.issued =
                                     <<MediaPlayerPlan(cmd_id, NoParams).calls[1]>>]
    /\ Posts
    /\ UNCHANGED <<attributes, hub, mapVars, pollVars, entities_ready,
                   initialization_lock, callers, registry, device_state,
                   config, client>>

\* The call in flight is answered.  It raised: command() returns
\* SERVER_ERROR.  It returned: the next call of the command is posted, or
\* command() schedules the deferred refresh and returns OK.
IdsCommandAnswered ==
    /\ call.pc = "await"
    /\ LET calls == MediaPlayerPlan(call.cmd_id, NoParams).calls
           n     == Len(call.out.issued)
       IN  \/ /\ call' = IdleCall
              /\ UNCHANGED <<deferred, clients>>
           \/ /\ n < Len(calls)
              /\ call' = [call EXCEPT !.out.issued = Append(@, calls[n + 1])]
              /\ Posts
              /\ UNCHANGED deferred
           \/ /\ n = Len(calls)
              /\ Len(deferred) < MaxDeferred
              /\ call' = IdleCall
              /\ deferred' = Append(deferred,
                               [ent |-> "mp", pc |-> "sleep", coverid |-> ""])
              /\ UNCHANGED clients
    /\ UNCHANGED <<attributes, hub, mapVars, polling_active, polling_task,
                   tasks, handlers, events, quiet, stopped, entities_ready,
                   initialization_lock, callers, registry, device_state,
                   config, client>>

IdsNext ==
    \/ \E t \in 1..Len(tasks) : IdsTaskRun(t)
    \/ \E t \in 1..Len(tasks) : TaskFetchAnswered(t)
    \/ \E t \in 1..Len(tasks) : TaskArtworkAnswered(t)
    \/ \E d \in 1..Len(deferred) : IdsDeferredWake(d)
    \/ \E d \in 1..Len(deferred) : DeferredFetchAnswered(d)
    \/ \E d \in 1..Len(deferred) : DeferredArtworkAnswered(d)
    \/ IdsCommandCalled
    \/ IdsCommandAnswered

SpecIds == IdsInit /\ [][IdsNext]_vars

(***************************************************************************)
(* Claim about the request identifiers (SpecIds).                          *)
(***************************************************************************)
\* C32: the ids of the requests one client has posted are strictly
\* increasing in the order of the posts, so no two of them are equal, also
\* while requests of both loops, of a command and of a deferred refresh are
\* in flight together.
C32_RequestIdsIncrease ==
    LET sent == clients[client].sent
    IN  \A i, j \in 1..Len(sent) : i < j => sent[i] < sent[j]

\* C32 witness: the status requests of both loops and of the deferred
\* refresh and a call of a command are in flight at once.
C32_Witness ==
    /\ tasks[1].pc = "fetch" /\ tasks[2].pc = "fetch"
    /\ Len(deferred) >= 1 /\ deferred[1].pc = "fetch"
    /\ call.pc = "await"
    /\ Len(clients[client].sent) >= 6

(***************************************************************************)
(* Claim about the pushes of one refresh cycle (SpecMap).                  *)
(***************************************************************************)
\* The refresh cycle has pushed exactly once.
PushedOnce == cycle.npub = 1

\* C33: a finished refresh cycle has pushed to the hub exactly once: the
\* mapped snapshot when the status request succeeded, the Unavailable
\* snapshot when it failed.
C33_OnePushPerCycle ==
    cycle.pc = "done"
        => /\ PushedOnce
           /\ hub[cycle.ent] = attributes[cycle.ent]
           /\ hub[cycle.ent].state = "UNAVAILABLE" <=> ~cycle.fetched

(***************************************************************************)
(* Claims about the remote's sync target and about the attributes across   *)
(* a command (SpecCmd).                                                    *)
(***************************************************************************)
\* C36: a SYNC_<name> command handled by a remote never issues a sync call
\* whose target is the remote's own player.
C36_SyncTargetIsAnotherPlayer ==
    SendCmdOf("SYNC") =>
      \A i \in 1..Len(call.out.issued) :
        call.out.issued[i] # GwCall("sync", RemoteSelf.player_id, 0)

\* C38: command() writes no attribute.  Whatever the command and its result,
\* the attributes of the entities and the hub's copies are the same when
\* command() returns as when it was called.
C38_CommandWritesNoAttribute ==
    [][(call.pc = "idle" /\ call'.pc = "done")
         => attributes' = attributes /\ hub' = hub]_vars

\* C38 witness: volume set to 42 has returned OK on a media player whose
\* volume attribute is still 0.
C38_Witness ==
    /\ call.pc = "done" /\ call.entity = "mp" /\ call.cmd_id = "volume"
    /\ call.params.volume = JInt(42) /\ call.out.result = "OK"
    /\ attributes["mp"].volume = 0

(***************************************************************************)
(* Claim about the readiness flag (SpecInit).                              *)
(***************************************************************************)
\* C34: entities_ready is never reset.  A call of _initialize_entities that
\* gets the lock when the entities are ready returns True and leaves the
\* collections, the Gateway client and the device state as they are; at
\* most one pass builds the entities.
C34_ReadyIsMonotonic ==
    /\ [][/\ entities_ready => entities_ready'
          /\ \A c \in 1..Len(callers) :
               (entities_ready /\ callers[c].pc = "wait" /\ callers'[c].pc # "wait")
                 => /\ callers'[c].pc = "done" /\ callers'[c].result
                    /\ ~callers'[c].cleared /\ ~callers'[c].built
                    /\ registry' = registry /\ clients' = clients
                    /\ client' = client /\ device_state' = device_state]_vars
    /\ [](Cardinality(Built) <= 1)

\* C34 witness: after the build of an earlier pass, the call made on setup
\* completion with the entities ready has returned True without clearing.
C34_Witness ==
    /\ entities_ready /\ Cardinality(Built) = 1
    /\ \E c \in 1..Len(callers) :
         /\ callers[c].kind = "setup" /\ callers[c].ready
         /\ callers[c].pc = "done" /\ callers[c].result
         /\ ~callers[c].cleared /\ ~callers[c].built

(***************************************************************************)
(* Claim about the entities after a hub disconnect (Spec).                 *)
(***************************************************************************)
\* No subscribe handler is in progress.
NoSubscribeInProgress ==
    \A h \in 1..Len(handlers) : handlers[h].kind # "subscribe"

\* C37: once a disconnect handler has returned, with no subscribe event
\* processed since it began, every entity it stopped has its polling flag
\* down, no task in its handle and no loop task running, until a subscribe
\* event names the entity.
C37_NoPollingAfterDisconnect ==
    \A e \in Entities :
      (LeftByDisconnect(e) /\ NoSubscribeInProgress)
        => polling_task[e] = 0 /\ Running(tasks, e) = {}

(***************************************************************************)
(* Claims about the progress of a polling loop (SpecLoop).                 *)
(***************************************************************************)
\* The loop task the handle of e refers to is at pc, and has not been
\* cancelled.
LoopAt(e, pc) ==
    /\ polling_task[e] \in DOMAIN tasks
    /\ tasks[polling_task[e]].pc = pc

\* Polling of e was started and is not being stopped.
Polling_On(e) ==
    /\ polling_active[e]
    /\ polling_task[e] \in DOMAIN tasks
    /\ ~tasks[polling_task[e]].cancel

\* The latest status request of the loop of e did not fail.
LoopAnswered(e) == Polling_On(e) /\ tasks[polling_task[e]].last # "failed"

\* The states the payloads of the server map to, by entity class.
DerivedStates(e) ==
    IF e = "mp" THEN {MapState(status) : status \in PollPayloads}
    ELSE {IF Get(status.power, JInt(0)) = JInt(1) THEN "ON" ELSE "OFF" :
            status \in PollPayloads}

C39_LoopKeepsFetching ==
    /\ \A e \in Entities :
         <>[]Polling_On(e) => ([]<>LoopAt(e, "fetch") /\ []<>LoopAt(e, "sleep"))
    /\ [][\A t \in DOMAIN tasks :
            (tasks[t].pc \in {"fetch", "artwork"} /\ tasks'[t].pc = "sleep")
              => hub'[tasks[t].ent] = attributes'[tasks[t].ent]]_vars

\* C39 witness: the loop of the remote is asleep after a failed status
\* request, with the Unavailable state pushed, and polling is still on.
C39_Witness ==
    /\ Polling_On("rm") /\ LoopAt("rm", "sleep")
    /\ tasks[polling_task["rm"]].last = "failed"
    /\ hub["rm"].state = "UNAVAILABLE"
====
